---- MODULE Spec2Model ----
(***************************************************************************)
(* The multiplexed websocket client of taos-ws (src/taos-ws/src/asyn.rs):  *)
(* the connection handshake of WsAsyncClient::from_wsinfo, the writer and  *)
(* reader tasks it spawns, the request calls s_query / s_exec / write_meta *)
(* with their req_id allocation and one-shot reply slots, and ResultSet    *)
(* with its fetch state machine and its Drop.                              *)
(*                                                                         *)
(* The server and the socket are the environment: the server answers the   *)
(* frames it has received in any order, or never; the socket may go down   *)
(* at any time.  Result ids are assigned by the server, one fresh id per   *)
(* result set of a connection.                                             *)
(***************************************************************************)
EXTENDS Integers, Sequences, FiniteSets, TLC

\* ------------------------------------------------------------- bounds
MaxCalls == 2          \* request calls (s_query, s_exec, write_meta) made on the client
MaxFetch == 1          \* fetch() invocations on one ResultSet
MaxUnasked == 1        \* frames the server sends without a request for them
MaxPush == 2           \* further fetch responses the server sends without a request

\* ------------------------------------------------- program constants
ConnReqId  == 0                      \* let req_id = 0 (the conn message)
FetchCap   == 2                      \* std::sync::mpsc::sync_channel(2)
WsChanCap  == 100                    \* tokio::sync::mpsc::channel(100)

Calls    == 1..MaxCalls
Kinds    == {"query", "exec", "meta"}
ErrCodes == {1}                      \* the non-zero codes the server answers with
ErrMsg(code) == IF code = 0 THEN "" ELSE "denied"

VARIABLES
  bpc,          \* from_wsinfo: "start", "await_version", "await_conn", "connected", "failed", "panicked"
  version,      \* WsAsyncClient.version
  hsLog,        \* frames from_wsinfo wrote on the socket, in order
  connAcked,    \* a conn reply with code 0 was read by from_wsinfo
  sock,         \* "open" or "down"
  wire,         \* frames the server has received and not yet handled
  inbox,        \* frames the server sent that the client has not yet read
  srvRes,       \* next result id of the server
  req_id,       \* WsAsyncClient.req_id (AtomicU64)
  queries,      \* WsAsyncClient.queries : req_id -> one-shot sender (the call that owns it)
  fetches,      \* WsAsyncClient.fetches : res_id -> fetch sender (the result set that owns it)
  kind, pc, rid, timer, slot, result,   \* per call
  rs,           \* per call: the ResultSet s_query returned
  chan,         \* per result set: content of its fetch channel
  closeTasks,   \* tasks spawned by Drop for ResultSet, not yet run
  wq,           \* the writer's channel (WsSender)
  wstate,       \* writer task: "none", "running", "failed", "closed"
  rstate,       \* reader task: "none", "running", "closed", "panicked"
  rhold,        \* reader: the cloned fetch sender and the data it is about to send
  dropped,      \* the WsAsyncClient was dropped (close_signal sent)
  unasked,      \* number of frames the server has sent without a request for them
  closed,       \* history: the res_ids for which a close message was enqueued
  dsn,          \* a Dsn::from_str / Display run: the input, the Dsn, its Display, the re-parse
  nulls,        \* a NullsMut run: the bools, the bitmap built from them, the row set afterwards
  raw           \* a raw block run: the bytes of the block and what the parser made of them

hvars == <<bpc, version, hsLog, connAcked>>
evars == <<sock, wire, inbox, srvRes>>
cvars == <<kind, pc, rid, timer, slot, result>>
\* The state of the websocket client and of its environment.
wsvars == <<bpc, version, hsLog, connAcked, sock, wire, inbox, srvRes, req_id,
            queries, fetches, kind, pc, rid, timer, slot, result, rs, chan,
            closeTasks, wq, wstate, rstate, rhold, dropped, unasked, closed>>
\* The state of the runs of the pure functions (parsers, formatters, codecs).
pvars == <<dsn, nulls, raw>>
\* What a run of one of them leaves alone.
dsnFrame   == <<wsvars, nulls, raw>>
nullsFrame == <<wsvars, dsn, raw>>
rawFrame   == <<wsvars, dsn, nulls>>
vars  == <<wsvars, pvars>>

\* ------------------------------------------------------------ messages
\* WsSend, as a record of its action and arguments.
Msg(a, r, i) == [a |-> a, req_id |-> r, id |-> i]

\* A frame from the server.  t is the tungstenite Message variant.
NoFrame ==
  [t |-> "text", action |-> "", code |-> 0, message |-> "", req_id |-> 0,
   id |-> 0, completed |-> FALSE, fields_count |-> 0, affected_rows |-> 0,
   version |-> "", len |-> 0, size |-> 0]

NoVal == [ok |-> TRUE, code |-> 0, message |-> "", id |-> 0,
          fields_count |-> 0, affected_rows |-> 0, completed |-> FALSE, data |-> ""]

\* Map helpers (scc::HashMap insert / remove).
MapPut(m, k, v) == [x \in DOMAIN m \cup {k} |-> IF x = k THEN v ELSE m[x]]
MapDel(m, k)    == [x \in DOMAIN m \ {k} |-> m[x]]


\* WsRecv::ok, which has the body of TmqRecv::ok: Ok(()) for code 0, otherwise
\* the error built from the frame's code and message.
WsRecv_ok(f) ==
  IF f.code = 0 THEN [ok |-> TRUE, code |-> 0, message |-> ""]
  ELSE [ok |-> FALSE, code |-> f.code, message |-> f.message]

\* The writer's channel is closed once the writer task has ended (msg_recv dropped).
WsClosed == wstate \in {"failed", "closed"}

\* ------------------------------------------------------------- Init
\* The client before WsAsyncClient::from_wsinfo is called.
ClientInit ==
  /\ bpc = "start" /\ version = "" /\ hsLog = <<>> /\ connAcked = FALSE
  /\ sock = "open" /\ wire = <<>> /\ inbox = <<>> /\ srvRes = 1
  /\ req_id = ConnReqId
  /\ queries = [x \in {} |-> 0]
  /\ fetches = [x \in {} |-> 0]
  /\ kind = [c \in Calls |-> ""]
  /\ pc = [c \in Calls |-> "idle"]
  /\ rid = [c \in Calls |-> 0]
  /\ timer = [c \in Calls |-> "off"]
  /\ slot = [c \in Calls |-> [st |-> "nil", val |-> NoVal]]
  /\ result = [c \in Calls |-> [tag |-> "none", code |-> 0, message |-> "", n |-> 0]]
  /\ rs = [c \in Calls |-> [st |-> "none", receiver |-> FALSE, req_id |-> 0, id |-> 0,
                            fields_count |-> 0, affected_rows |-> 0, cap |-> 0,
                            fpc |-> "idle", n |-> 0, out |-> [tag |-> "none", code |-> 0, message |-> ""]]]
  /\ chan = [c \in Calls |-> <<>>]
  /\ closeTasks = {}
  /\ wq = <<>> /\ wstate = "none" /\ rstate = "none"
  /\ rhold = [on |-> FALSE, ch |-> 0, data |-> NoVal]
  /\ dropped = FALSE
  /\ unasked = 0
  /\ closed = {}

\* No run of a pure function is in progress.
DsnIdle == [pc |-> "off"]
NullsIdle == [pc |-> "off"]
RawIdle == [pc |-> "off"]
PureIdle == dsn = DsnIdle /\ nulls = NullsIdle /\ raw = RawIdle

Init == ClientInit /\ PureIdle

clientvars == <<req_id, queries, fetches, kind, pc, rid, timer, slot, result, rs,
                chan, closeTasks, wq, rhold, dropped>>

\* -------------------------------------------------------- from_wsinfo
\* The value the client's counter starts from: AtomicU64::new(req_id + 1).
InitReqId == ConnReqId + 1

\* The client is built and both tasks are spawned.
Spawn(acked) ==
  /\ bpc' = "connected" /\ connAcked' = acked
  /\ wstate' = "running" /\ rstate' = "running"
  /\ req_id' = InitReqId

\* sender.send(login.to_msg()).await? after the version step chose v.
SendConn(v) ==
  IF sock = "open"
  THEN /\ version' = v
       /\ wire' = Append(wire, Msg("conn", ConnReqId, 0))
       /\ hsLog' = Append(hsLog, Msg("conn", ConnReqId, 0))
       /\ bpc' = "await_conn"
  ELSE /\ version' = "" /\ bpc' = "failed" /\ UNCHANGED <<wire, hsLog>>

\* connect_async(..).await? ; sender.send(version.to_msg()).await?
ConnectSendVersion ==
  /\ bpc = "start"
  /\ IF sock = "open"
     THEN /\ wire' = Append(wire, Msg("version", 0, 0))
          /\ hsLog' = Append(hsLog, Msg("version", 0, 0))
          /\ bpc' = "await_version"
     ELSE /\ bpc' = "failed" /\ UNCHANGED <<wire, hsLog>>
  /\ UNCHANGED <<version, connAcked, sock, inbox, srvRes, wstate, rstate>>
  /\ UNCHANGED clientvars
  /\ UNCHANGED <<unasked, closed, pvars>>

\* timeout(2 s, reader.next()) returned a frame.
RecvVersion ==
  /\ bpc = "await_version" /\ inbox # <<>>
  /\ LET f == Head(inbox) IN
       /\ inbox' = Tail(inbox)
       /\ IF f.t = "text" /\ f.action = "version"
          THEN IF WsRecv_ok(f).ok
               THEN SendConn(f.version)
               ELSE /\ bpc' = "failed" /\ UNCHANGED <<version, wire, hsLog>>
          ELSE SendConn("2.x")
  /\ UNCHANGED <<connAcked, sock, srvRes, wstate, rstate>>
  /\ UNCHANGED clientvars
  /\ UNCHANGED <<unasked, closed, pvars>>

\* timeout(2 s, reader.next()) elapsed, or the stream ended: the version is "2.x".
VersionTimeout ==
  /\ bpc = "await_version" /\ inbox = <<>>
  /\ SendConn("2.x")
  /\ UNCHANGED <<connAcked, sock, inbox, srvRes, wstate, rstate>>
  /\ UNCHANGED clientvars
  /\ UNCHANGED <<unasked, closed, pvars>>

\* reader.next().await returned Some(Ok(message)) after the conn message.
RecvConn ==
  /\ bpc = "await_conn" /\ inbox # <<>>
  /\ LET f == Head(inbox) IN
       /\ inbox' = Tail(inbox)
       /\ IF f.t = "text" /\ f.action = "conn"
          THEN IF WsRecv_ok(f).ok
               THEN /\ Spawn(TRUE) /\ UNCHANGED version
               ELSE /\ bpc' = "failed" /\ version' = ""
                    /\ UNCHANGED <<connAcked, wstate, rstate, req_id>>
          ELSE /\ bpc' = "panicked" /\ version' = ""      \* unreachable!()
               /\ UNCHANGED <<connAcked, wstate, rstate, req_id>>
  /\ UNCHANGED <<hsLog, sock, wire, srvRes>>
  /\ UNCHANGED <<queries, fetches, kind, pc, rid, timer, slot, result, rs,
                 chan, closeTasks, wq, rhold, dropped>>
  /\ UNCHANGED <<unasked, closed, pvars>>

\* reader.next().await returned None or Some(Err(_)): the `if let` is skipped.
ConnNone ==
  /\ bpc = "await_conn" /\ inbox = <<>> /\ sock = "down"
  /\ Spawn(FALSE)
  /\ UNCHANGED <<version, hsLog, sock, wire, inbox, srvRes>>
  /\ UNCHANGED <<queries, fetches, kind, pc, rid, timer, slot, result, rs,
                 chan, closeTasks, wq, rhold, dropped>>
  /\ UNCHANGED <<unasked, closed, pvars>>


\* ------------------------------------------------------- environment
\* The socket goes down: later writes fail and the inbound stream ends.
SockDown ==
  /\ sock = "open" /\ sock' = "down"
  /\ UNCHANGED <<bpc, version, hsLog, connAcked, wire, inbox, srvRes, wstate, rstate>>
  /\ UNCHANGED clientvars
  /\ UNCHANGED <<unasked, closed, pvars>>

Remove(q, i) == [j \in 1..(Len(q) - 1) |-> IF j < i THEN q[j] ELSE q[j + 1]]

TextFrame(action, code, r, i) ==
  [NoFrame EXCEPT !.action = action, !.code = code, !.message = ErrMsg(code),
                  !.req_id = r, !.id = i]

\* The frames the server may answer the message m with (none for close).
Replies(m) ==
  CASE m.a = "version" ->
         {[TextFrame("version", 0, 0, 0) EXCEPT !.version = "3.x"]}
         \cup {TextFrame("version", e, 0, 0) : e \in ErrCodes}
    [] m.a = "conn" ->
         {TextFrame("conn", e, m.req_id, 0) : e \in {0} \cup ErrCodes}
    [] m.a = "query" ->
         {[TextFrame("query", 0, m.req_id, srvRes) EXCEPT !.fields_count = 1],
          [TextFrame("query", 0, m.req_id, 0) EXCEPT !.affected_rows = 2]}
         \cup {TextFrame("query", e, m.req_id, 0) : e \in ErrCodes}
    [] m.a = "write_meta" ->
         {TextFrame("write_meta", e, m.req_id, 0) : e \in {0} \cup ErrCodes}
    [] m.a = "fetch" ->
         {[TextFrame("fetch", 0, m.req_id, m.id) EXCEPT !.completed = b] : b \in BOOLEAN}
         \cup {TextFrame("fetch", e, m.req_id, m.id) : e \in ErrCodes}
    [] m.a = "fetch_block" ->
         {[NoFrame EXCEPT !.t = "binary", !.id = m.id, !.len = l, !.size = 24] : l \in {16, 20}}
    [] OTHER -> {}

\* The server handles one of the frames it has received, in any order.
ServerHandle ==
  /\ sock = "open"
  /\ \E i \in DOMAIN wire :
       LET m == wire[i] IN
         /\ wire' = Remove(wire, i)
         /\ IF Replies(m) = {}
            THEN UNCHANGED <<inbox, srvRes>>
            ELSE \E f \in Replies(m) :
                   /\ inbox' = Append(inbox, f)
                   /\ srvRes' = IF f.action = "query" /\ f.fields_count > 0
                                THEN srvRes + 1 ELSE srvRes
  /\ UNCHANGED <<bpc, version, hsLog, connAcked, sock, wstate, rstate>>
  /\ UNCHANGED clientvars
  /\ UNCHANGED <<unasked, closed, pvars>>

\* ------------------------------------------------------ request calls
\* A counter that is read but not advanced.
fetch_add_stuck(cur) == cur

\* WsAsyncClient::req_id : fetch_add(1) stores cur + 1 and returns cur.  The
\* counter is an AtomicU64 that starts at 1; it cannot wrap within the calls of
\* one connection, so the addition is written without the modulus 2^64.
fetch_add(cur) == cur + 1

Res(tag, code, message, n) == [tag |-> tag, code |-> code, message |-> message, n |-> n]

\* let req_id = self.req_id(); let (tx, rx) = oneshot::channel();
\* self.queries.insert(req_id, tx).unwrap();
Start(c, k) ==
  /\ bpc = "connected" /\ ~dropped
  /\ pc[c] = "idle" /\ (IF c = 1 THEN TRUE ELSE pc[c - 1] # "idle")
  /\ kind' = [kind EXCEPT ![c] = k]
  /\ rid' = [rid EXCEPT ![c] = req_id]
  /\ req_id' = fetch_add(req_id)
  /\ IF req_id \in DOMAIN queries
     THEN /\ pc' = [pc EXCEPT ![c] = "done"]
          /\ result' = [result EXCEPT ![c] = Res("panic", 0, "", 0)]
          /\ UNCHANGED <<queries, slot>>
     ELSE /\ queries' = MapPut(queries, req_id, c)
          /\ slot' = [slot EXCEPT ![c].st = "empty"]
          /\ pc' = [pc EXCEPT ![c] = "send"]
          /\ UNCHANGED result
  /\ UNCHANGED <<hvars, evars, fetches, timer, rs, chan, closeTasks, wq, wstate,
                 rstate, rhold, dropped>>
  /\ UNCHANGED <<unasked, closed, pvars>>

\* The message a call of kind k sends.
Request(k, r) == Msg(IF k = "meta" THEN "write_meta" ELSE "query", r, 0)

\* No call arms a sleep.
HasTimeout_never(k) == FALSE

\* s_exec awaits the reply without a sleep; s_query and write_meta select on one.
HasTimeout(k) == k \in {"query", "meta"}

\* self.ws.send_timeout(msg, self.timeout).await? ; then the sleep is created.
Send(c) ==
  /\ pc[c] = "send"
  /\ IF WsClosed
     THEN /\ pc' = [pc EXCEPT ![c] = "done"]
          /\ result' = [result EXCEPT ![c] = Res("send_error", 0, "", 0)]
          /\ slot' = [slot EXCEPT ![c].st = "rxdrop"]
          /\ UNCHANGED <<wq, timer>>
     ELSE /\ Len(wq) < WsChanCap
          /\ wq' = Append(wq, Request(kind[c], rid[c]))
          /\ pc' = [pc EXCEPT ![c] = "wait"]
          /\ timer' = [timer EXCEPT ![c] = IF HasTimeout(kind[c]) THEN "running" ELSE "off"]
          /\ UNCHANGED <<result, slot>>
  /\ UNCHANGED <<hvars, evars, req_id, queries, fetches, kind, rid, rs, chan,
                 closeTasks, wstate, rstate, rhold, dropped>>
  /\ UNCHANGED <<unasked, closed, pvars>>

\* tokio::time::sleep(self.timeout) reaches its deadline.
TimerFire(c) ==
  /\ pc[c] = "wait" /\ timer[c] = "running"
  /\ timer' = [timer EXCEPT ![c] = "elapsed"]
  /\ UNCHANGED <<hvars, evars, req_id, queries, fetches, kind, pc, rid, slot, result,
                 rs, chan, closeTasks, wq, wstate, rstate, rhold, dropped>>
  /\ UNCHANGED <<unasked, closed, pvars>>

\* The queries map after a call has timed out: the timeout branch returns
\* through `?` and touches nothing.
QueriesAfterTimeout(c) == queries

\* select!: the sleep branch.  Err(Error::QueryTimeout(..))? ; rx is dropped.
SelectTimeout(c) ==
  /\ pc[c] = "wait" /\ timer[c] = "elapsed"
  /\ pc' = [pc EXCEPT ![c] = "done"]
  /\ result' = [result EXCEPT ![c] = Res("timeout", 0, "", 0)]
  /\ slot' = [slot EXCEPT ![c] = [st |-> "rxdrop", val |-> NoVal]]
  /\ timer' = [timer EXCEPT ![c] = "off"]
  /\ queries' = QueriesAfterTimeout(c)
  /\ UNCHANGED <<hvars, evars, req_id, fetches, kind, rid, rs, chan,
                 closeTasks, wq, wstate, rstate, rhold, dropped>>
  /\ UNCHANGED <<unasked, closed, pvars>>

\* What the call returns for the reply v it took from its one-shot slot
\* (message?? and the code after the select).
Returned(k, v) ==
  IF ~v.ok THEN Res("taos", v.code, v.message, 0)
  ELSE CASE k = "query" -> Res("rs", 0, "", 0)
         [] k = "exec"  -> Res("rows", 0, "", v.affected_rows)
         [] OTHER       -> Res("unit", 0, "", 0)

\* A result set that gets a receiver whatever the reply's fields_count is.
NewResultSet_alwaysReceiver(r, v) ==
  [st |-> "live", receiver |-> TRUE, req_id |-> r, id |-> v.id,
   fields_count |-> v.fields_count, affected_rows |-> v.affected_rows,
   cap |-> FetchCap, fpc |-> "idle", n |-> 0,
   out |-> [tag |-> "none", code |-> 0, message |-> ""]]

\* The ResultSet s_query builds from the reply v (lines 443-487).
NewResultSet(r, v) ==
  [st |-> "live", receiver |-> (v.fields_count > 0), req_id |-> r, id |-> v.id,
   fields_count |-> IF v.fields_count > 0 THEN v.fields_count ELSE 0,
   affected_rows |-> v.affected_rows,
   cap |-> IF v.fields_count > 0 THEN FetchCap ELSE 0, fpc |-> "idle", n |-> 0,
   out |-> [tag |-> "none", code |-> 0, message |-> ""]]

\* select!: the rx branch (for s_exec: rx.await), and the rest of the call.
SelectReply(c) ==
  /\ pc[c] = "wait" /\ slot[c].st = "full"
  /\ LET v == slot[c].val IN
       /\ pc' = [pc EXCEPT ![c] = "done"]
       /\ slot' = [slot EXCEPT ![c] = [st |-> "taken", val |-> NoVal]]
       /\ timer' = [timer EXCEPT ![c] = "off"]
       /\ IF v.ok /\ kind[c] = "query"
          THEN IF v.fields_count > 0
               THEN IF v.id \in DOMAIN fetches
                    THEN /\ result' = [result EXCEPT ![c] = Res("panic", 0, "", 0)]
                         /\ UNCHANGED <<fetches, rs>>
                    ELSE /\ fetches' = MapPut(fetches, v.id, c)
                         /\ rs' = [rs EXCEPT ![c] = NewResultSet(rid[c], v)]
                         /\ result' = [result EXCEPT ![c] = Returned(kind[c], v)]
               ELSE /\ rs' = [rs EXCEPT ![c] = NewResultSet(rid[c], v)]
                    /\ result' = [result EXCEPT ![c] = Returned(kind[c], v)]
                    /\ UNCHANGED fetches
          ELSE /\ result' = [result EXCEPT ![c] = Returned(kind[c], v)]
               /\ UNCHANGED <<fetches, rs>>
  /\ UNCHANGED <<hvars, evars, req_id, queries, kind, rid, chan,
                 closeTasks, wq, wstate, rstate, rhold, dropped>>
  /\ UNCHANGED <<unasked, closed, pvars>>

\* ------------------------------------------------------------ writer
\* A channel that hands out its newest message.
Recv_newest(q) == q[Len(q)]

\* msg_recv.recv() : the oldest message of the channel.
Recv(q) == Head(q)

\* Some(msg) = msg_recv.recv() : sender.send(msg).await, break on error.
WriterSend ==
  /\ wstate = "running" /\ wq # <<>>
  /\ IF sock = "open"
     THEN /\ wire' = Append(wire, Recv(wq))
          /\ wq' = Tail(wq)
          /\ UNCHANGED wstate
     ELSE /\ wstate' = "failed"
          /\ wq' = <<>>
          /\ UNCHANGED wire
  /\ UNCHANGED <<hvars, sock, inbox, srvRes, req_id, queries, fetches, cvars, rs,
                 chan, closeTasks, rstate, rhold, dropped>>
  /\ UNCHANGED <<unasked, closed, pvars>>

\* _ = rx.changed() : sender.close().await ; break.
WriterClose ==
  /\ wstate = "running" /\ dropped
  /\ wstate' = "closed"
  /\ wq' = <<>>
  /\ UNCHANGED <<hvars, evars, req_id, queries, fetches, cvars, rs,
                 chan, closeTasks, rstate, rhold, dropped>>
  /\ UNCHANGED <<unasked, closed, pvars>>

\* impl Drop for WsAsyncClient: close_signal.send(true).  The calls borrow
\* the client, so none is in progress.
ClientDrop ==
  /\ bpc = "connected" /\ ~dropped
  /\ \A c \in Calls : pc[c] \in {"idle", "done"}
  /\ dropped' = TRUE
  /\ UNCHANGED <<hvars, evars, req_id, queries, fetches, cvars, rs,
                 chan, closeTasks, wq, wstate, rstate, rhold>>
  /\ UNCHANGED <<unasked, closed, pvars>>

\* ------------------------------------------------------------ reader
ErrVal(f) == [NoVal EXCEPT !.ok = FALSE, !.code = WsRecv_ok(f).code,
                           !.message = WsRecv_ok(f).message]

\* A reader that hands the response on as a success whatever its code.
QueryVal_dropErr(f) ==
  [NoVal EXCEPT !.data = "query", !.id = f.id, !.fields_count = f.fields_count,
                !.affected_rows = f.affected_rows]

\* ok.map(|_| query) and ok.map(|_| WsQueryResp::default())
QueryVal(f) ==
  IF ~WsRecv_ok(f).ok THEN ErrVal(f)
  ELSE IF f.action = "query"
       THEN [NoVal EXCEPT !.data = "query", !.id = f.id,
                          !.fields_count = f.fields_count,
                          !.affected_rows = f.affected_rows]
       ELSE [NoVal EXCEPT !.data = "query"]

\* ok.map(|_| WsFetchData::Fetch(fetch))
FetchVal(f) ==
  IF ~WsRecv_ok(f).ok THEN ErrVal(f)
  ELSE [NoVal EXCEPT !.data = "fetch", !.id = f.id, !.completed = f.completed]

\* WsFetchData::Block for a v3 frame, WsFetchData::BlockV2 otherwise.
BlockVal(f) ==
  [NoVal EXCEPT !.data = IF f.size = f.len + 8 THEN "block" ELSE "block_v2", !.id = f.id]

\* The receiver of result set ch's fetch channel still exists.
ReceiverAlive(ch) == rs[ch].st = "live" /\ rs[ch].receiver

\* v.send(data) on a sync_channel blocks while the channel is full.
CanSend(ch) == ~ReceiverAlive(ch) \/ Len(chan[ch]) < rs[ch].cap

\* WsRecvData::Query and WsRecvData::WriteMeta
ReaderQuery ==
  /\ rstate = "running" /\ ~rhold.on /\ inbox # <<>>
  /\ LET f == Head(inbox) IN
       /\ f.t = "text" /\ f.action \in {"query", "write_meta"}
       /\ inbox' = Tail(inbox)
       /\ IF f.req_id \in DOMAIN queries
          THEN LET c == queries[f.req_id] IN
                 /\ queries' = MapDel(queries, f.req_id)
                 /\ IF slot[c].st = "empty"
                    THEN /\ slot' = [slot EXCEPT ![c] = [st |-> "full", val |-> QueryVal(f)]]
                         /\ UNCHANGED rstate
                    ELSE /\ rstate' = "panicked"      \* sender.send(..).unwrap()
                         /\ UNCHANGED slot
          ELSE UNCHANGED <<queries, slot, rstate>>
  /\ UNCHANGED <<hvars, sock, wire, srvRes, req_id, fetches, kind, pc, rid, timer,
                 result, rs, chan, closeTasks, wq, wstate, rhold, dropped>>
  /\ UNCHANGED <<unasked, closed, pvars>>

\* WsRecvData::Fetch : the close message on completed, then the sender is cloned.
ReaderFetch ==
  /\ rstate = "running" /\ ~rhold.on /\ inbox # <<>>
  /\ LET f == Head(inbox) IN
       /\ f.t = "text" /\ f.action = "fetch"
       /\ inbox' = Tail(inbox)
       /\ IF f.completed /\ WsClosed
          THEN /\ rstate' = "panicked"                \* ws2.send(..).await.unwrap()
               /\ UNCHANGED <<wq, rhold>>
          ELSE /\ wq' = IF f.completed THEN Append(wq, Msg("close", f.req_id, f.id)) ELSE wq
               /\ rhold' = IF f.id \in DOMAIN fetches
                           THEN [on |-> TRUE, ch |-> fetches[f.id], data |-> FetchVal(f)]
                           ELSE rhold
               /\ UNCHANGED rstate
       /\ closed' = IF f.completed /\ ~WsClosed THEN closed \cup {f.id} ELSE closed
  /\ UNCHANGED <<hvars, sock, wire, srvRes, req_id, queries, fetches, cvars, rs, chan,
                 closeTasks, wstate, dropped>>
  /\ UNCHANGED <<unasked, pvars>>

\* A channel that puts a new value ahead of the waiting ones.
ChanSend_front(q, v) == <<v>> \o q

\* v.send(data) on the sync_channel: the value goes behind the waiting ones.
ChanSend(q, v) == Append(q, v)

\* v.send(data).unwrap() on the cloned sender.
ReaderFetchSend ==
  /\ rstate = "running" /\ rhold.on /\ CanSend(rhold.ch)
  /\ rhold' = [on |-> FALSE, ch |-> 0, data |-> NoVal]
  /\ IF ReceiverAlive(rhold.ch)
     THEN /\ chan' = [chan EXCEPT ![rhold.ch] = ChanSend(@, rhold.data)]
          /\ UNCHANGED rstate
     ELSE /\ rstate' = "panicked"
          /\ UNCHANGED chan
  /\ UNCHANGED <<hvars, evars, req_id, queries, fetches, cvars, rs,
                 closeTasks, wq, wstate, dropped>>
  /\ UNCHANGED <<unasked, closed, pvars>>

\* Message::Binary : routed by the res_id, sent inside fetches.read.
ReaderBinary ==
  /\ rstate = "running" /\ ~rhold.on /\ inbox # <<>>
  /\ LET f == Head(inbox) IN
       /\ f.t = "binary" /\ f.size >= 12
       /\ inbox' = Tail(inbox)
       /\ IF f.id \in DOMAIN fetches
          THEN LET ch == fetches[f.id] IN
                 /\ CanSend(ch)
                 /\ IF ReceiverAlive(ch)
                    THEN /\ chan' = [chan EXCEPT ![ch] = ChanSend(@, BlockVal(f))]
                         /\ UNCHANGED rstate
                    ELSE /\ rstate' = "panicked"
                         /\ UNCHANGED chan
          ELSE UNCHANGED <<chan, rstate>>
  /\ UNCHANGED <<hvars, sock, wire, srvRes, req_id, queries, fetches, cvars, rs,
                 closeTasks, wq, wstate, rhold, dropped>>
  /\ UNCHANGED <<unasked, closed, pvars>>

\* Any other WsRecvData variant in a text frame: unreachable!().
ReaderOther ==
  /\ rstate = "running" /\ ~rhold.on /\ inbox # <<>>
  /\ LET f == Head(inbox) IN
       /\ f.t = "text" /\ f.action \notin {"query", "write_meta", "fetch"}
       /\ inbox' = Tail(inbox)
       /\ rstate' = "panicked"
  /\ UNCHANGED <<hvars, sock, wire, srvRes, req_id, queries, fetches, cvars, rs, chan,
                 closeTasks, wq, wstate, rhold, dropped>>
  /\ UNCHANGED <<unasked, closed, pvars>>

\* _ = close_listener.changed() : break.
ReaderClose ==
  /\ rstate = "running" /\ ~rhold.on /\ dropped
  /\ rstate' = "closed"
  /\ UNCHANGED <<hvars, evars, req_id, queries, fetches, cvars, rs, chan,
                 closeTasks, wq, wstate, rhold, dropped>>
  /\ UNCHANGED <<unasked, closed, pvars>>

\* slice.read_u64().unwrap() and &block[8..12] on a frame of less than 12 bytes.
ReaderShortBinary ==
  /\ rstate = "running" /\ ~rhold.on /\ inbox # <<>>
  /\ Head(inbox).t = "binary" /\ Head(inbox).size < 12
  /\ inbox' = Tail(inbox)
  /\ rstate' = "panicked"
  /\ UNCHANGED <<hvars, sock, wire, srvRes, req_id, queries, fetches, cvars, rs, chan,
                 closeTasks, wq, wstate, rhold, dropped>>
  /\ UNCHANGED <<unasked, closed, pvars>>

\* The pong the reader sends for a ping.
PongMsg(f) == [a |-> "pong", req_id |-> 0, id |-> 0, payload |-> f.message]

\* Message::Ping(bytes) : ws2.send(Message::Pong(bytes)).await.unwrap()
ReaderPing ==
  /\ rstate = "running" /\ ~rhold.on /\ inbox # <<>>
  /\ Head(inbox).t = "ping"
  /\ inbox' = Tail(inbox)
  /\ IF WsClosed
     THEN /\ rstate' = "panicked"
          /\ UNCHANGED wq
     ELSE /\ Len(wq) < WsChanCap
          /\ wq' = Append(wq, PongMsg(Head(inbox)))
          /\ UNCHANGED rstate
  /\ UNCHANGED <<hvars, sock, wire, srvRes, req_id, queries, fetches, cvars, rs, chan,
                 closeTasks, wstate, rhold, dropped>>
  /\ UNCHANGED <<unasked, closed, pvars>>

\* Message::Pong(_) and Message::Frame(_) : a warning is logged.
ReaderIgnore ==
  /\ rstate = "running" /\ ~rhold.on /\ inbox # <<>>
  /\ Head(inbox).t \in {"pong", "frame"}
  /\ inbox' = Tail(inbox)
  /\ UNCHANGED <<hvars, sock, wire, srvRes, req_id, queries, fetches, cvars, rs, chan,
                 closeTasks, wq, wstate, rstate, rhold, dropped>>
  /\ UNCHANGED <<unasked, closed, pvars>>

\* Message::Close(_) : break.
ReaderCloseFrame ==
  /\ rstate = "running" /\ ~rhold.on /\ inbox # <<>>
  /\ Head(inbox).t = "close"
  /\ inbox' = Tail(inbox)
  /\ rstate' = "closed"
  /\ UNCHANGED <<hvars, sock, wire, srvRes, req_id, queries, fetches, cvars, rs, chan,
                 closeTasks, wq, wstate, rhold, dropped>>
  /\ UNCHANGED <<unasked, closed, pvars>>

\* --------------------------------------------------------- ResultSet
Out(tag, code, message) == [tag |-> tag, code |-> code, message |-> message]

\* The fetch call returns o.
FetchReturn(c, o) ==
  rs' = [rs EXCEPT ![c].fpc = IF o.tag = "panic" THEN "panicked" ELSE "idle",
                   ![c].n = @ + 1, ![c].out = o]

\* self.ws.send(fetch.to_msg()).await?
FetchStart(c) ==
  /\ rs[c].st = "live" /\ rs[c].fpc = "idle" /\ rs[c].n < MaxFetch
  /\ IF WsClosed
     THEN /\ FetchReturn(c, Out("send_error", 0, ""))
          /\ UNCHANGED wq
     ELSE /\ Len(wq) < WsChanCap
          /\ wq' = Append(wq, Msg("fetch", rs[c].req_id, rs[c].id))
          /\ rs' = [rs EXCEPT ![c].fpc = "await_meta"]
  /\ UNCHANGED <<hvars, evars, req_id, queries, fetches, cvars, chan,
                 closeTasks, wstate, rstate, rhold, dropped>>
  /\ UNCHANGED <<unasked, closed, pvars>>

\* A fetch that asks for a block after every fetch reply.
NeedsBlock_always(d) == TRUE

\* if fetch_resp.completed { return Ok(None); } : a block is asked for otherwise.
NeedsBlock(d) == ~d.completed

\* self.receiver.as_mut().unwrap().recv()?? for the fetch reply, and the
\* fetch_block message when the reply is not completed.
FetchRecvMeta(c) ==
  /\ rs[c].st = "live" /\ rs[c].fpc = "await_meta"
  /\ IF ~rs[c].receiver
     THEN /\ FetchReturn(c, Out("panic", 0, ""))
          /\ UNCHANGED <<chan, wq>>
     ELSE /\ chan[c] # <<>>
          /\ chan' = [chan EXCEPT ![c] = Tail(@)]
          /\ LET d == Head(chan[c]) IN
               IF ~d.ok
               THEN /\ FetchReturn(c, Out("taos", d.code, d.message))
                    /\ UNCHANGED wq
               ELSE IF d.data # "fetch"
               THEN /\ FetchReturn(c, Out("panic", 0, ""))
                    /\ UNCHANGED wq
               ELSE IF ~NeedsBlock(d)
               THEN /\ FetchReturn(c, Out("end", 0, ""))
                    /\ UNCHANGED wq
               ELSE IF WsClosed
               THEN /\ FetchReturn(c, Out("send_error", 0, ""))
                    /\ UNCHANGED wq
               ELSE /\ Len(wq) < WsChanCap
                    /\ wq' = Append(wq, Msg("fetch_block", rs[c].req_id, rs[c].id))
                    /\ rs' = [rs EXCEPT ![c].fpc = "await_block"]
  /\ UNCHANGED <<hvars, evars, req_id, queries, fetches, cvars,
                 closeTasks, wstate, rstate, rhold, dropped>>
  /\ UNCHANGED <<unasked, closed, pvars>>

\* self.receiver.as_mut().unwrap().recv()?? for the block, which is decoded.
FetchRecvBlock(c) ==
  /\ rs[c].st = "live" /\ rs[c].fpc = "await_block"
  /\ chan[c] # <<>>
  /\ chan' = [chan EXCEPT ![c] = Tail(@)]
  /\ LET d == Head(chan[c]) IN
       IF ~d.ok THEN FetchReturn(c, Out("taos", d.code, d.message))
       ELSE IF d.data = "block" THEN FetchReturn(c, Out("block", 0, ""))
       ELSE IF d.data = "block_v2" THEN FetchReturn(c, Out("block_v2", 0, ""))
       ELSE FetchReturn(c, Out("end", 0, ""))
  /\ UNCHANGED <<hvars, evars, req_id, queries, fetches, cvars,
                 closeTasks, wq, wstate, rstate, rhold, dropped>>
  /\ UNCHANGED <<unasked, closed, pvars>>

\* A drop that leaves the fetches map alone.
FetchesAfterDrop_keep(c) == fetches

\* self.fetches.remove(&self.args.id)
FetchesAfterDrop(c) == MapDel(fetches, rs[c].id)

\* impl Drop for ResultSet
DropRS(c) ==
  /\ rs[c].st = "live" /\ rs[c].fpc \in {"idle", "panicked"}
  /\ rs' = [rs EXCEPT ![c].st = "dropped"]
  /\ chan' = [chan EXCEPT ![c] = <<>>]
  /\ IF rs[c].receiver
     THEN /\ fetches' = FetchesAfterDrop(c)
          /\ closeTasks' = closeTasks \cup {c}
     ELSE UNCHANGED <<fetches, closeTasks>>
  /\ UNCHANGED <<hvars, evars, req_id, queries, cvars,
                 wq, wstate, rstate, rhold, dropped>>
  /\ UNCHANGED <<unasked, closed, pvars>>

\* The task Drop spawned: let _ = ws.send(WsSend::Close(args).to_msg()).await
CloseTask(c) ==
  /\ c \in closeTasks
  /\ closeTasks' = closeTasks \ {c}
  /\ IF WsClosed
     THEN UNCHANGED <<wq, closed>>
     ELSE /\ Len(wq) < WsChanCap
          /\ wq' = Append(wq, Msg("close", rs[c].req_id, rs[c].id))
          /\ closed' = closed \cup {rs[c].id}
  /\ UNCHANGED <<hvars, evars, req_id, queries, fetches, cvars, rs, chan,
                 wstate, rstate, rhold, dropped>>
  /\ UNCHANGED <<unasked, pvars>>

\* ------------------------------------------------------ specification
Next ==
  \/ ConnectSendVersion \/ RecvVersion \/ VersionTimeout \/ RecvConn \/ ConnNone
  \/ SockDown \/ ServerHandle
  \/ \E c \in Calls, k \in Kinds : Start(c, k)
  \/ \E c \in Calls : Send(c)
  \/ \E c \in Calls : TimerFire(c)
  \/ \E c \in Calls : SelectTimeout(c)
  \/ \E c \in Calls : SelectReply(c)
  \/ WriterSend \/ WriterClose \/ ClientDrop
  \/ ReaderQuery \/ ReaderFetch \/ ReaderFetchSend \/ ReaderBinary \/ ReaderOther
  \/ ReaderClose
  \/ \E c \in Calls : FetchStart(c)
  \/ \E c \in Calls : FetchRecvMeta(c)
  \/ \E c \in Calls : FetchRecvBlock(c)
  \/ \E c \in Calls : DropRS(c)
  \/ \E c \in Calls : CloseTask(c)

Spec == Init /\ [][Next]_vars

\* ---- a server that also sends frames nobody asked for
\* The frames: a ping, a pong, a close, a text that is no response (it does not
\* parse, or names no known action), a response of an action the reader does
\* not route, a binary frame of 8 bytes, and a fetch response or a block for a
\* result id the server has handed out.
UnaskedFrames ==
  {[NoFrame EXCEPT !.t = "ping", !.message = "p"], [NoFrame EXCEPT !.t = "pong"],
   [NoFrame EXCEPT !.t = "close"], [NoFrame EXCEPT !.action = "?"],
   [NoFrame EXCEPT !.action = "conn"], [NoFrame EXCEPT !.t = "binary", !.size = 8]}
  \cup {[TextFrame("fetch", 0, 0, i) EXCEPT !.completed = b] : i \in 1..(srvRes - 1), b \in BOOLEAN}
  \cup {[NoFrame EXCEPT !.t = "binary", !.id = i, !.len = 16, !.size = 24] : i \in 1..(srvRes - 1)}

ServerUnasked ==
  /\ sock = "open" /\ bpc = "connected" /\ unasked < MaxUnasked
  /\ unasked' = unasked + 1
  /\ \E f \in UnaskedFrames : inbox' = Append(inbox, f)
  /\ UNCHANGED <<hvars, sock, wire, srvRes, wstate, rstate>>
  /\ UNCHANGED clientvars
  /\ UNCHANGED <<closed, pvars>>

\* One request call is made on the client.
CtlNext ==
  \/ ConnectSendVersion \/ RecvVersion \/ VersionTimeout \/ RecvConn \/ ConnNone
  \/ SockDown \/ ServerHandle \/ ServerUnasked
  \/ \E k \in Kinds : Start(1, k)
  \/ Send(1) \/ TimerFire(1) \/ SelectTimeout(1) \/ SelectReply(1)
  \/ WriterSend \/ WriterClose \/ ClientDrop
  \/ ReaderQuery \/ ReaderFetch \/ ReaderFetchSend \/ ReaderBinary \/ ReaderOther
  \/ ReaderShortBinary \/ ReaderPing \/ ReaderIgnore \/ ReaderCloseFrame
  \/ ReaderClose
  \/ FetchStart(1) \/ FetchRecvMeta(1) \/ FetchRecvBlock(1)
  \/ DropRS(1) \/ CloseTask(1)

CtlSpec == Init /\ [][CtlNext]_vars

\* The runtime polls a task that can make progress, and the sleep of a waiting
\* call reaches its deadline; nothing is assumed of the server or the socket.
FairSpec ==
  /\ Spec
  /\ \A c \in Calls : WF_vars(Send(c))
  /\ \A c \in Calls : WF_vars(TimerFire(c))
  /\ \A c \in Calls : WF_vars(SelectTimeout(c) \/ SelectReply(c))

\* ------------------------------------------------------------ claims
Started(c) == pc[c] # "idle"

\* The call c leaves its select.
SelectStep(c) == pc[c] = "wait" /\ pc'[c] = "done"

\* The call c leaves its select with the reply of its one-shot slot.
TookReply(c) == SelectStep(c) /\ slot[c].st = "full" /\ slot'[c].st = "taken"

\* C1: the req_id values handed out to the calls of one client are pairwise
\* distinct, strictly increasing in allocation order (the calls are numbered in
\* the order they allocate), and none equals the conn message's req_id 0.
C1_ReqIdUnique ==
  /\ \A c, d \in Calls :
       (Started(c) /\ Started(d) /\ c < d) => (rid[c] # rid[d] /\ rid[c] < rid[d])
  /\ \A c \in Calls : Started(c) => rid[c] # ConnReqId

\* Two calls of different kinds hold their req_ids while both are in progress.
C1_Witness ==
  /\ pc[1] = "wait" /\ pc[2] = "wait"
  /\ kind[1] = "query" /\ kind[2] = "exec"

\* C2: when s_query takes a successful query reply, then with fields_count > 0
\* it creates a fetch channel of capacity 2, inserts its sender into fetches
\* under the reply's res_id and returns a ResultSet holding the receiver; with
\* fields_count = 0 it leaves fetches alone and returns a ResultSet without
\* receiver that carries the reply's affected_rows.
C2_QueryReply ==
  [][\A c \in Calls :
       (TookReply(c) /\ kind[c] = "query" /\ slot[c].val.ok) =>
         LET v == slot[c].val IN
           /\ result'[c].tag = "rs"
           /\ rs'[c].st = "live" /\ rs'[c].id = v.id
           /\ IF v.fields_count > 0
              THEN /\ v.id \notin DOMAIN fetches
                   /\ fetches' = MapPut(fetches, v.id, c)
                   /\ rs'[c].receiver /\ rs'[c].cap = 2 /\ chan'[c] = <<>>
              ELSE /\ fetches' = fetches
                   /\ ~rs'[c].receiver
                   /\ rs'[c].affected_rows = v.affected_rows
    ]_vars

\* One query returned a result set with a receiver, another one a handle that
\* carries the affected rows.
C2_Witness ==
  \E c, d \in Calls :
    /\ result[c].tag = "rs" /\ rs[c].st = "live" /\ rs[c].receiver
    /\ rs[c].id \in DOMAIN fetches /\ fetches[rs[c].id] = c
    /\ result[d].tag = "rs" /\ rs[d].st = "live" /\ ~rs[d].receiver
    /\ rs[d].affected_rows = 2 /\ rs[d].id \notin DOMAIN fetches

FetchMsgs(c) == {Msg(a, rs[c].req_id, rs[c].id) : a \in {"fetch", "fetch_block"}}

\* C3: a fetch goes Idle -> AwaitFetchMeta -> AwaitBlock -> Yield -> Idle.  It
\* sends exactly one fetch message, waits for the fetch reply, and only for a
\* reply with completed = false it sends exactly one fetch_block message and
\* then yields the decoded block; for completed = true it yields None and
\* sends no fetch_block.
C3_FetchMachine ==
  [][\A c \in Calls :
       LET a == rs[c].fpc
           b == rs'[c].fpc
           d == Head(chan[c])
       IN
         /\ (a = "idle" /\ b # "idle") =>
              (b = "await_meta" /\ wq' = Append(wq, Msg("fetch", rs[c].req_id, rs[c].id)))
         /\ (a = "await_meta" /\ b = "await_block") =>
              /\ chan[c] # <<>> /\ d.ok /\ d.data = "fetch" /\ ~d.completed
              /\ wq' = Append(wq, Msg("fetch_block", rs[c].req_id, rs[c].id))
         /\ (a = "await_meta" /\ b # a /\ rs[c].receiver /\ d.ok /\ d.data = "fetch"
               /\ d.completed) =>
              (b = "idle" /\ rs'[c].out.tag = "end" /\ wq' = wq)
         /\ (a = "await_block" /\ b # a) =>
              /\ b = "idle" /\ wq' = wq
              /\ (d.ok /\ d.data = "block") => rs'[c].out.tag = "block"
              /\ (d.ok /\ d.data = "block_v2") => rs'[c].out.tag = "block_v2"
         /\ (rs'[c].out.tag \in {"block", "block_v2"} /\ rs'[c].n # rs[c].n) =>
              a = "await_block"
         /\ (a = b /\ rs[c].st = "live" /\ Len(wq') > Len(wq)) =>
              wq'[Len(wq')] \notin FetchMsgs(c)
    ]_vars

\* A fetch went through the whole cycle and yielded a v3 block.
C3_Witness ==
  \E c \in Calls : rs[c].st = "live" /\ rs[c].fpc = "idle" /\ rs[c].n = 1
                   /\ rs[c].out.tag = "block"

\* The ResultSet c is dropped in this step.
DropStep(c) == rs[c].st = "live" /\ rs'[c].st = "dropped"

\* The ResultSet owns a fetch channel and has not seen completed = true.
NonTerminal(c) == rs[c].receiver /\ rs[c].out.tag # "end"

\* The close task that the drop of ResultSet c spawned runs in this step.
CloseTaskStep(c) == c \in closeTasks /\ c \notin closeTasks'

CloseMsg(c) == Msg("close", rs[c].req_id, rs[c].id)

\* C4 as claimed: dropping a ResultSet in a non-terminal state removes its
\* res_id from fetches and enqueues one close message for it on the writer
\* channel; after the drop fetches has no entry for that res_id.
C4_DropEnqueuesClose ==
  [][\A c \in Calls :
       /\ (DropStep(c) /\ NonTerminal(c)) =>
            (rs[c].id \notin DOMAIN fetches' /\ c \in closeTasks')
       /\ (CloseTaskStep(c) /\ NonTerminal(c)) => wq' = Append(wq, CloseMsg(c))
       /\ (rs[c].st = "dropped" /\ NonTerminal(c)) => rs[c].id \notin DOMAIN fetches'
    ]_vars

\* C4 as amended: the drop removes the res_id from fetches at once, and the
\* task it spawns enqueues one close message for the res_id if the writer's
\* channel is still open; if the writer task has ended, nothing is enqueued
\* and the failure is swallowed.  After the drop fetches has no entry for it.
C4_DropBestEffortClose ==
  [][\A c \in Calls :
       /\ (DropStep(c) /\ NonTerminal(c)) =>
            (rs[c].id \notin DOMAIN fetches' /\ c \in closeTasks')
       /\ (CloseTaskStep(c) /\ NonTerminal(c)) =>
            wq' = IF WsClosed THEN wq ELSE Append(wq, CloseMsg(c))
       /\ (rs[c].st = "dropped" /\ NonTerminal(c)) => rs[c].id \notin DOMAIN fetches'
    ]_vars

\* A result set was dropped before any fetch and its close message is queued.
C4_Witness ==
  \E c \in Calls :
    /\ rs[c].st = "dropped" /\ rs[c].receiver /\ rs[c].n = 0
    /\ c \notin closeTasks /\ rs[c].id \notin DOMAIN fetches
    /\ \E i \in DOMAIN wq : wq[i] = CloseMsg(c)

\* C5 as claimed: the req_id is in the queries map before the request is
\* handed to the writer channel, the reader removes it when the reply arrives,
\* and a call that returned a timeout error has left no entry for its req_id.
C5_QueriesLifecycle ==
  [][\A c \in Calls :
       /\ (pc[c] = "send" /\ pc'[c] = "wait") => rid[c] \in DOMAIN queries
       /\ (SelectStep(c) /\ result'[c].tag = "timeout") => rid[c] \notin DOMAIN queries'
       /\ (result[c].tag = "timeout") => rid[c] \notin DOMAIN queries
    ]_vars

LateReply(c) ==
  /\ bpc = "connected" /\ rstate = "running" /\ inbox # <<>> /\ inbox' = Tail(inbox)
  /\ Head(inbox).t = "text" /\ Head(inbox).action \in {"query", "write_meta"}
  /\ Head(inbox).req_id = rid[c] /\ result[c].tag = "timeout"

\* C7 as claimed: after a call has timed out, the late reply for its req_id is
\* discarded by the reader, which keeps running and wakes no caller.
C7_LateReplyDiscarded ==
  [][\A c \in Calls : LateReply(c) => (rstate' = "running" /\ slot' = slot)]_vars

\* The reader takes a frame from the socket in this step.
ReaderTakes == bpc = "connected" /\ inbox # <<>> /\ inbox' = Tail(inbox)

\* C8: a response with non-zero code reaches the waiting caller as an error
\* with that code and message: a query or write_meta response through the
\* req_id's one-shot slot, a fetch response through the res_id's fetch channel;
\* s_query, s_exec, write_meta and ResultSet::fetch return that error.
C8_ServerError ==
  [][LET f == Head(inbox) IN
       /\ (ReaderTakes /\ f.t = "text" /\ f.code # 0
             /\ f.action \in {"query", "write_meta"} /\ f.req_id \in DOMAIN queries
             /\ slot[queries[f.req_id]].st = "empty") =>
            LET c == queries[f.req_id] IN
              /\ slot'[c].st = "full" /\ ~slot'[c].val.ok
              /\ slot'[c].val.code = f.code /\ slot'[c].val.message = f.message
       /\ (ReaderTakes /\ f.t = "text" /\ f.code # 0 /\ f.action = "fetch"
             /\ f.id \in DOMAIN fetches /\ ~(f.completed /\ WsClosed)) =>
            /\ rhold'.on /\ rhold'.ch = fetches[f.id] /\ ~rhold'.data.ok
            /\ rhold'.data.code = f.code /\ rhold'.data.message = f.message
       /\ (rhold.on /\ ~rhold'.on /\ ReceiverAlive(rhold.ch)) =>
            chan'[rhold.ch] = Append(chan[rhold.ch], rhold.data)
       /\ \A c \in Calls :
            /\ (TookReply(c) /\ ~slot[c].val.ok) =>
                 result'[c] = Res("taos", slot[c].val.code, slot[c].val.message, 0)
            /\ (rs[c].fpc \in {"await_meta", "await_block"} /\ rs'[c].fpc # rs[c].fpc
                  /\ rs[c].receiver /\ ~Head(chan[c]).ok) =>
                 /\ rs'[c].fpc = "idle"
                 /\ rs'[c].out = Out("taos", Head(chan[c]).code, Head(chan[c]).message)
    ]_vars

\* A call and a fetch both returned the server's error.
C8_Witness ==
  \E c, d \in Calls :
    /\ result[c].tag = "taos" /\ result[c].code = 1 /\ result[c].message = "denied"
    /\ rs[d].out.tag = "taos" /\ rs[d].out.code = 1 /\ rs[d].out.message = "denied"

\* C9 as claimed: once a socket write has failed in the writer, the reader
\* stops too and a caller that is still waiting for a reply is failed with an
\* I/O error.
C9_WriterFailureFailsCallers ==
  [][wstate = "failed" =>
       /\ \A c \in Calls : (SelectStep(c) /\ slot[c].st # "full") => result'[c].tag = "io"
       /\ ~(ReaderTakes /\ rstate' = "running")
    ]_vars

\* C10 as claimed: the version probe is the first frame and the conn message
\* (req_id 0) the second; a client exists only if the version reply and the
\* conn reply were both received with code 0, and when from_wsinfo ends
\* without a client no writer or reader task exists.
C10_Handshake ==
  /\ Len(hsLog) >= 1 => hsLog[1] = Msg("version", 0, 0)
  /\ Len(hsLog) >= 2 => hsLog[2] = Msg("conn", ConnReqId, 0)
  /\ Len(hsLog) <= 2
  /\ bpc = "connected" => (connAcked /\ version = "3.x")
  /\ bpc \in {"failed", "panicked"} => (wstate = "none" /\ rstate = "none")

\* ===================================================================== mdsn
(***************************************************************************)
(* Dsn::from_str and Display for Dsn (src/mdsn/src/lib.rs).  A DSN string  *)
(* is the sequence of its lexemes: the punctuation of the grammar and the  *)
(* maximal runs of other characters between them.  The pest grammar        *)
(* (dsn.pest) is not among the sources; the rules below follow the grammar *)
(* of the design document, section 4.1, and the tests of lib.rs.           *)
(***************************************************************************)
MaxAddrs  == 2         \* addresses in one input
MaxParams == 2         \* parameters in one input
U16Max    == 65535     \* pub port: Option<u16>

\* The lexemes of the inputs, by lexical class.
Idents   == {"taos", "ws", "tcp", "root", "pw", "h1", "h2", "db", "a", "b"}
Nums     == {"6030", "06030", "70000", "1", "2"}
PathToks == {"%2Fvar", "%2fvar"}
FragToks == {"./f.db"}

None    == [some |-> FALSE, v |-> ""]
Some(x) == [some |-> TRUE, v |-> x]

\* str::parse::<u16>: the decimal value, an error above u16::MAX.
u16_parse(t) ==
  LET n == CASE t = "6030" -> 6030 [] t = "06030" -> 6030 [] t = "70000" -> 70000
             [] t = "1" -> 1 [] t = "2" -> 2 [] OTHER -> U16Max + 1
  IN  [ok |-> n <= U16Max, v |-> n]

\* Display for u16: decimal digits without leading zeros.
u16_fmt(n) ==
  CASE n = 6030 -> "6030" [] n = 1 -> "1" [] n = 2 -> "2" [] OTHER -> "0"

\* urlencoding::decode and urlencoding::encode (upper-case hex digits).
urlencoding_decode(t) == IF t \in {"%2Fvar", "%2fvar"} THEN "/var" ELSE t
urlencoding_encode(x) == IF x = "/var" THEN "%2Fvar" ELSE x

\* String's Ord on the parameter names.
StrRank(k) == CASE k = "a" -> 1 [] k = "b" -> 2 [] OTHER -> 3

\* ---------------------------------------------------------- the grammar
At(s, p) == IF p \in DOMAIN s THEN s[p] ELSE ""
Leaf(rule, str)   == [rule |-> rule, str |-> str, inner |-> <<>>]
Node(rule, inner) == [rule |-> rule, str |-> "", inner |-> inner]

\* address := host (":" port)? | ":" port | "%"-encoded path
Rule_address(s, p) ==
  IF At(s, p) \in PathToks
  THEN [ok |-> TRUE, pos |-> p + 1, pair |-> Node("address", <<Leaf("path", s[p])>>)]
  ELSE IF At(s, p) \in Idents /\ At(s, p + 1) = ":" /\ At(s, p + 2) \in Nums
  THEN [ok |-> TRUE, pos |-> p + 3,
        pair |-> Node("address", <<Leaf("host", s[p]), Leaf("port", s[p + 2])>>)]
  ELSE IF At(s, p) \in Idents
  THEN [ok |-> TRUE, pos |-> p + 1, pair |-> Node("address", <<Leaf("host", s[p])>>)]
  ELSE IF At(s, p) = ":" /\ At(s, p + 1) \in Nums
  THEN [ok |-> TRUE, pos |-> p + 2, pair |-> Node("address", <<Leaf("port", s[p + 1])>>)]
  ELSE [ok |-> FALSE, pos |-> p, pair |-> Node("address", <<>>)]

\* addresses := address ("," address)* ; a is the match of address after acc.
RECURSIVE Rule_addresses_rep(_, _, _)
Rule_addresses_rep(s, acc, a) ==
  IF ~a.ok THEN acc
  ELSE IF At(s, a.pos) = ","
  THEN Rule_addresses_rep(s, [ok |-> TRUE, pos |-> a.pos, pairs |-> acc.pairs \o <<a.pair>>],
                          Rule_address(s, a.pos + 1))
  ELSE [ok |-> TRUE, pos |-> a.pos, pairs |-> acc.pairs \o <<a.pair>>]

Rule_addresses(s, p) ==
  Rule_addresses_rep(s, [ok |-> FALSE, pos |-> p, pairs |-> <<>>], Rule_address(s, p))

\* The rules of the sequence `dsn` take the parse so far, acc = [ok, pos, frag,
\* pairs], and return it extended by what they matched at acc.pos.
Matched(acc, pos, pairs) == [acc EXCEPT !.pos = pos, !.pairs = acc.pairs \o pairs]

\* scheme := driver ("+" protocol)? ; then "://"
Rule_scheme(s) ==
  IF At(s, 1) \in Idents /\ At(s, 2) = "+" /\ At(s, 3) \in Idents /\ At(s, 4) = "://"
  THEN [ok |-> TRUE, pos |-> 5, frag |-> FALSE,
        pairs |-> <<Node("scheme", <<Leaf("driver", s[1]), Leaf("protocol", s[3])>>),
                    Leaf("SCHEME_IDENT", "://")>>]
  ELSE IF At(s, 1) \in Idents /\ At(s, 2) = "://"
  THEN [ok |-> TRUE, pos |-> 3, frag |-> FALSE,
        pairs |-> <<Node("scheme", <<Leaf("driver", s[1])>>), Leaf("SCHEME_IDENT", "://")>>]
  ELSE [ok |-> FALSE, pos |-> 1, frag |-> FALSE, pairs |-> <<>>]

\* userinfo := (username (":" password)?)? "@" ; optional
Rule_userinfo(s, acc) ==
  IF At(s, acc.pos) \in Idents /\ At(s, acc.pos + 1) = ":"
     /\ At(s, acc.pos + 2) \in Idents \cup Nums /\ At(s, acc.pos + 3) = "@"
  THEN Matched(acc, acc.pos + 4,
               <<Node("username_with_password", <<Leaf("username", s[acc.pos]),
                                                  Leaf("password", s[acc.pos + 2])>>)>>)
  ELSE IF At(s, acc.pos) \in Idents /\ At(s, acc.pos + 1) = "@"
  THEN Matched(acc, acc.pos + 2,
               <<Node("username_with_password", <<Leaf("username", s[acc.pos])>>)>>)
  ELSE IF At(s, acc.pos) = "@"
  THEN Matched(acc, acc.pos + 1, <<Node("username_with_password", <<>>)>>)
  ELSE acc

\* The alternatives of endpoint after the inline form: addresses | fragment.
Rule_endpoint_plain(s, acc, pln) ==
  IF pln.ok
  THEN Matched(acc, pln.pos,
               <<Node("protocol_with_addresses", <<Node("addresses", pln.pairs)>>)>>)
  ELSE IF At(s, acc.pos) \in FragToks
  THEN [Matched(acc, acc.pos + 1, <<Leaf("fragment", s[acc.pos])>>) EXCEPT !.frag = TRUE]
  ELSE acc

\* The inline form of endpoint, given the addresses inl after the "(".
Rule_endpoint_inline(s, acc, inl) ==
  IF inl.ok /\ At(s, inl.pos) = ")"
  THEN Matched(acc, inl.pos + 1,
               <<Node("protocol_with_addresses",
                      <<Leaf("protocol", s[acc.pos]), Node("addresses", inl.pairs)>>)>>)
  ELSE Rule_endpoint_plain(s, acc, Rule_addresses(s, acc.pos))

\* endpoint := protocol "(" addresses ")" | addresses | fragment ; optional.
\* A fragment runs to the "?" or to the end: no database follows it.
Rule_endpoint(s, acc) ==
  IF At(s, acc.pos) \in Idents /\ At(s, acc.pos + 1) = "("
  THEN Rule_endpoint_inline(s, acc, Rule_addresses(s, acc.pos + 2))
  ELSE Rule_endpoint_plain(s, acc, Rule_addresses(s, acc.pos))

\* ("/" database?)? ; optional
Rule_database(s, acc) ==
  IF acc.frag \/ At(s, acc.pos) # "/" THEN acc
  ELSE IF At(s, acc.pos + 1) \in Idents
  THEN Matched(acc, acc.pos + 2, <<Leaf("database", s[acc.pos + 1])>>)
  ELSE Matched(acc, acc.pos + 1, <<>>)

\* param ("&" param)* ; param := name "=" value
RECURSIVE Rule_params(_, _)
Rule_params(s, acc) ==
  IF ~(At(s, acc.pos) \in Idents /\ At(s, acc.pos + 1) = "="
       /\ At(s, acc.pos + 2) \in Idents \cup Nums)
  THEN [acc EXCEPT !.ok = FALSE]
  ELSE IF At(s, acc.pos + 3) = "&"
  THEN Rule_params(s, Matched(acc, acc.pos + 4,
                     <<Node("param", <<Leaf("name", s[acc.pos]),
                                       Leaf("value", s[acc.pos + 2])>>)>>))
  ELSE Matched(acc, acc.pos + 3,
               <<Node("param", <<Leaf("name", s[acc.pos]), Leaf("value", s[acc.pos + 2])>>)>>)

\* ("?" params)? EOI
Rule_query(s, acc) ==
  IF At(s, acc.pos) = "?" THEN Rule_params(s, [acc EXCEPT !.pos = acc.pos + 1]) ELSE acc

Rule_EOI(s, acc) ==
  IF acc.ok /\ acc.pos = Len(s) + 1
  THEN [ok |-> TRUE, pairs |-> acc.pairs \o <<Leaf("EOI", "")>>]
  ELSE [ok |-> FALSE, pairs |-> <<>>]

\* dsn := scheme "://" userinfo? endpoint? ("/" database?)? ("?" params)? EOI
Rule_dsn(s) ==
  Rule_EOI(s, Rule_query(s, Rule_database(s, Rule_endpoint(s, Rule_userinfo(s,
           Rule_scheme(s))))))

\* ------------------------------------------------------- Dsn::from_str
AddressDefault == [host |-> None, port |-> [some |-> FALSE, v |-> 0], path |-> None]
DsnDefault ==
  [driver |-> "", protocol |-> None, username |-> None, password |-> None,
   addresses |-> <<>>, fragment |-> None, database |-> None,
   params |-> [x \in {} |-> ""]]

\* The folds below carry acc = [ok, err, v]: ok = FALSE once a `?` has returned
\* the error err, and v is then of no use.

\* addr.port = Some(inner.as_str().parse()?)
SetPort(acc, n) ==
  IF n.ok THEN [acc EXCEPT !.v.port = [some |-> TRUE, v |-> n.v]] ELSE [acc EXCEPT !.ok = FALSE, !.err = "PortErr"]

\* The inner pairs of one address: host, port (parsed as u16), path (decoded).
RECURSIVE AddressFold(_, _)
AddressFold(inner, acc) ==
  IF inner = <<>> \/ ~acc.ok THEN acc
  ELSE AddressFold(Tail(inner),
         CASE Head(inner).rule = "host" -> [acc EXCEPT !.v.host = Some(Head(inner).str)]
           [] Head(inner).rule = "port" -> SetPort(acc, u16_parse(Head(inner).str))
           [] OTHER -> [acc EXCEPT !.v.path = Some(urlencoding_decode(Head(inner).str))])

\* An address list that grows at its front.
Push_front(addresses, addr) == <<addr>> \o addresses

\* to.addresses.push(addr)
Push(addresses, addr) == Append(addresses, addr)

PushAddress(acc, a) ==
  IF a.ok THEN [acc EXCEPT !.v.addresses = Push(@, a.v)] ELSE [acc EXCEPT !.ok = FALSE, !.err = a.err]

\* The address pairs of Rule::addresses, in the order of the pairs.
RECURSIVE AddressesFold(_, _)
AddressesFold(pairs, acc) ==
  IF pairs = <<>> \/ ~acc.ok THEN acc
  ELSE AddressesFold(Tail(pairs),
         PushAddress(acc, AddressFold(Head(pairs).inner,
                                      [ok |-> TRUE, err |-> "", v |-> AddressDefault])))

\* to.params.insert(name, value): BTreeMap::insert replaces the value of a key.
Params_insert(params, name, value) == MapPut(params, name, value)

\* The text of the first inner pair of the rule, "" if there is none.
InnerStr(inner, rule) ==
  IF \E i \in DOMAIN inner : inner[i].rule = rule
  THEN inner[CHOOSE i \in DOMAIN inner : inner[i].rule = rule].str ELSE ""

\* The inner pairs of Rule::scheme, Rule::username_with_password and
\* Rule::protocol_with_addresses.
RECURSIVE InnerFold(_, _)
InnerFold(inner, acc) ==
  IF inner = <<>> \/ ~acc.ok THEN acc
  ELSE InnerFold(Tail(inner),
         CASE Head(inner).rule = "driver"    -> [acc EXCEPT !.v.driver = Head(inner).str]
           [] Head(inner).rule = "protocol"  -> [acc EXCEPT !.v.protocol = Some(Head(inner).str)]
           [] Head(inner).rule = "username"  -> [acc EXCEPT !.v.username = Some(Head(inner).str)]
           [] Head(inner).rule = "password"  -> [acc EXCEPT !.v.password = Some(Head(inner).str)]
           [] Head(inner).rule = "addresses" -> AddressesFold(Head(inner).inner, acc)
           [] OTHER -> acc)

\* for pair in dsn.into_inner() { match pair.as_rule() { .. } }
RECURSIVE DsnFold(_, _)
DsnFold(pairs, acc) ==
  IF pairs = <<>> \/ ~acc.ok THEN acc
  ELSE DsnFold(Tail(pairs),
         CASE Head(pairs).rule \in {"scheme", "username_with_password",
                                    "protocol_with_addresses"} ->
                InnerFold(Head(pairs).inner, acc)
           [] Head(pairs).rule = "database" ->
                [acc EXCEPT !.v.database = Some(Head(pairs).str)]
           [] Head(pairs).rule = "fragment" ->
                [acc EXCEPT !.v.fragment = Some(Head(pairs).str)]
           [] Head(pairs).rule = "param" ->
                [acc EXCEPT !.v.params = Params_insert(@, InnerStr(Head(pairs).inner, "name"),
                                                       InnerStr(Head(pairs).inner, "value"))]
           [] OTHER -> acc)                                \* SCHEME_IDENT, EOI

\* DsnParser::parse(rule, s)? and the loop over the pairs.
FromPairs(g) ==
  IF g.ok THEN DsnFold(g.pairs, [ok |-> TRUE, err |-> "", v |-> DsnDefault])
  ELSE [ok |-> FALSE, err |-> "ParseErr", v |-> DsnDefault]

\* Dsn::from_str
Dsn_from_str(s) == FromPairs(Rule_dsn(s))

\* The address of a matched Rule::address.
FromAddress(g) ==
  IF g.ok THEN AddressFold(g.pair.inner, [ok |-> TRUE, err |-> "", v |-> AddressDefault])
  ELSE [ok |-> FALSE, err |-> "ParseErr", v |-> AddressDefault]

\* Address::from_str: DsnParser::parse(Rule::address, s), which need not reach
\* the end of s.
Address_from_str(s) == FromAddress(Rule_address(s, 1))

\* ------------------------------------------------------------- Display
\* An address whose path is written as it is stored.
Address_fmt_rawPath(a) ==
  IF a.path.some THEN [ok |-> TRUE, toks |-> <<a.path.v>>]
  ELSE IF a.host.some /\ a.port.some
  THEN [ok |-> TRUE, toks |-> <<a.host.v, ":", u16_fmt(a.port.v)>>]
  ELSE IF a.host.some THEN [ok |-> TRUE, toks |-> <<a.host.v>>]
  ELSE IF a.port.some THEN [ok |-> TRUE, toks |-> <<":", u16_fmt(a.port.v)>>]
  ELSE [ok |-> TRUE, toks |-> <<>>]

\* impl Display for Address; ok = FALSE is the unreachable!() arm.
Address_fmt(a) ==
  IF a.host.some /\ ~a.port.some /\ ~a.path.some
  THEN [ok |-> TRUE, toks |-> <<a.host.v>>]
  ELSE IF a.host.some /\ a.port.some /\ ~a.path.some
  THEN [ok |-> TRUE, toks |-> <<a.host.v, ":", u16_fmt(a.port.v)>>]
  ELSE IF ~a.host.some /\ a.port.some /\ ~a.path.some
  THEN [ok |-> TRUE, toks |-> <<":", u16_fmt(a.port.v)>>]
  ELSE IF ~a.host.some /\ ~a.port.some /\ a.path.some
  THEN [ok |-> TRUE, toks |-> <<urlencoding_encode(a.path.v)>>]
  ELSE IF ~a.host.some /\ ~a.port.some /\ ~a.path.some
  THEN [ok |-> TRUE, toks |-> <<>>]
  ELSE [ok |-> FALSE, toks |-> <<>>]

\* self.addresses.iter().map(ToString::to_string).join(",")
RECURSIVE JoinAddresses(_)
JoinAddresses(addresses) ==
  IF addresses = <<>> THEN <<>>
  ELSE Address_fmt(Head(addresses)).toks
       \o (IF Len(addresses) > 1 THEN <<",">> ELSE <<>>)
       \o JoinAddresses(Tail(addresses))

\* The keys from the greatest to the least.
RECURSIVE BTreeKeys_desc(_)
BTreeKeys_desc(K) ==
  IF K = {} THEN <<>>
  ELSE LET k == CHOOSE x \in K : \A y \in K : StrRank(y) <= StrRank(x)
       IN  <<k>> \o BTreeKeys_desc(K \ {k})

\* BTreeMap::iter: the keys in ascending order.
RECURSIVE BTreeKeys(_)
BTreeKeys(K) ==
  IF K = {} THEN <<>>
  ELSE LET k == CHOOSE x \in K : \A y \in K : StrRank(x) <= StrRank(y)
       IN  <<k>> \o BTreeKeys(K \ {k})

\* self.params.iter().map(|(k, v)| format!("{k}={v}")).join("&")
RECURSIVE JoinParams(_, _)
JoinParams(keys, params) ==
  IF keys = <<>> THEN <<>>
  ELSE <<Head(keys), "=", params[Head(keys)]>>
       \o (IF Len(keys) > 1 THEN <<"&">> ELSE <<>>)
       \o JoinParams(Tail(keys), params)

\* impl Display for Dsn; ok = FALSE when an address reaches unreachable!().
Dsn_fmt(d) ==
  [ok   |-> \A i \in DOMAIN d.addresses : Address_fmt(d.addresses[i]).ok,
   toks |-> <<d.driver>>
            \o (IF d.protocol.some THEN <<"+", d.protocol.v>> ELSE <<>>)
            \o <<"://">>
            \o (IF d.username.some /\ d.password.some
                THEN <<d.username.v, ":", d.password.v, "@">>
                ELSE IF d.username.some THEN <<d.username.v, "@">>
                ELSE IF d.password.some THEN <<":", d.password.v, "@">>
                ELSE <<>>)
            \o JoinAddresses(d.addresses)
            \o (IF d.database.some THEN <<"/", d.database.v>> ELSE <<>>)
            \o (IF d.fragment.some THEN <<d.fragment.v>> ELSE <<>>)
            \o (IF DOMAIN d.params # {}
                THEN <<"?">> \o JoinParams(BTreeKeys(DOMAIN d.params), d.params)
                ELSE <<>>)]

\* ------------------------------------------------- the runs of the parser
SeqsUpTo(S, n) == UNION {[1..k -> S] : k \in 0..n}
Perms(n) == {f \in [1..n -> 1..n] : \A i, j \in 1..n : i # j => f[i] # f[j]}
Permute(q, f) == [i \in DOMAIN q |-> q[f[i]]]

\* The token sequences of the parts, joined by a separator.
RECURSIVE Sep(_, _)
Sep(parts, sep) ==
  IF parts = <<>> THEN <<>>
  ELSE Head(parts) \o (IF Len(parts) > 1 THEN <<sep>> ELSE <<>>) \o Sep(Tail(parts), sep)

\* The parts the input strings are put together from.
AddrForms == {<<"h1">>, <<"h2", ":", "06030">>, <<":", "6030">>, <<"%2fvar">>,
              <<"h1", ":", "70000">>}
UserForms == {<<>>, <<"@">>, <<"root", "@">>, <<"root", ":", "pw", "@">>}
DbForms   == {<<>>, <<"/">>, <<"/", "db">>}
ParamForms == {<<k, "=", v>> : k \in {"a", "b"}, v \in {"1", "2"}}
AddrLists == SeqsUpTo(AddrForms, MaxAddrs) \ {<<>>}

\* driver ("+" protocol)? "://" userinfo endpoint database params
DsnText(proto, user, ep, addrs, db, params) ==
  <<"taos">> \o (IF proto THEN <<"+", "ws">> ELSE <<>>) \o <<"://">> \o user
  \o (CASE ep = "plain"  -> Sep(addrs, ",")
        [] ep = "inline" -> <<"tcp", "(">> \o Sep(addrs, ",") \o <<")">>
        [] ep = "frag"   -> <<"./f.db">>
        [] OTHER           -> <<>>)
  \o db
  \o (IF params = <<>> THEN <<>> ELSE <<"?">> \o Sep(params, "&"))

\* An input: its parts, its text s, and the text s2 of the same parts with the
\* parameters in another order.
DsnInput(pr, u, k, a, b, ps, f) ==
  [pc |-> "input", proto |-> pr, user |-> u, kind |-> k, addrs |-> a, db |-> b,
   params |-> ps, params2 |-> Permute(ps, f),
   s  |-> DsnText(pr, u, k, a, b, ps),
   s2 |-> DsnText(pr, u, k, a, b, Permute(ps, f))]

\* The inputs of Address::from_str.
AddressInputs ==
  {[pc |-> "addr_input", s |-> s] : s \in AddrForms \cup {<<"h1", ",", "h2">>, <<"?">>}}

DsnInit ==
  /\ ClientInit /\ nulls = NullsIdle /\ raw = RawIdle
  /\ \/ \E pr \in BOOLEAN, u \in UserForms, k \in {"none", "plain", "inline", "frag"},
          a \in AddrLists, b \in DbForms, ps \in SeqsUpTo(ParamForms, MaxParams) :
          \E f \in Perms(Len(ps)) :
             /\ k \in {"none", "frag"} => a = <<<<"h1">>>>
             /\ k = "frag" => b = <<>>
             /\ dsn = DsnInput(pr, u, k, a, b, ps, f)
     \/ dsn \in AddressInputs

\* let d = Dsn::from_str(s)
DsnParse ==
  /\ dsn.pc = "input"
  /\ dsn' = [pc |-> IF Dsn_from_str(dsn.s).ok THEN "parsed" ELSE "rejected", in |-> dsn,
             d |-> Dsn_from_str(dsn.s), d2 |-> Dsn_from_str(dsn.s2)]
  /\ UNCHANGED dsnFrame

\* let out = d.to_string()
DsnFormat ==
  /\ dsn.pc = "parsed"
  /\ dsn' = [pc |-> IF Dsn_fmt(dsn.d.v).ok THEN "formatted" ELSE "panicked",
             in |-> dsn.in, d |-> dsn.d, d2 |-> dsn.d2,
             out |-> Dsn_fmt(dsn.d.v), out2 |-> Dsn_fmt(dsn.d2.v)]
  /\ UNCHANGED dsnFrame

\* let r = Dsn::from_str(&out)
DsnReparse ==
  /\ dsn.pc = "formatted"
  /\ dsn' = [pc |-> "reparsed", in |-> dsn.in, d |-> dsn.d, d2 |-> dsn.d2,
             out |-> dsn.out, out2 |-> dsn.out2, r |-> Dsn_from_str(dsn.out.toks)]
  /\ UNCHANGED dsnFrame

\* let a = Address::from_str(s)
AddressParse ==
  /\ dsn.pc = "addr_input"
  /\ dsn' = [pc |-> IF Address_from_str(dsn.s).ok THEN "addr_parsed" ELSE "addr_rejected",
             s |-> dsn.s, a |-> Address_from_str(dsn.s)]
  /\ UNCHANGED dsnFrame

\* let out = a.to_string()
AddressFormat ==
  /\ dsn.pc = "addr_parsed"
  /\ dsn' = [pc |-> IF Address_fmt(dsn.a.v).ok THEN "addr_formatted" ELSE "panicked",
             s |-> dsn.s, a |-> dsn.a, out |-> Address_fmt(dsn.a.v)]
  /\ UNCHANGED dsnFrame

DsnNext == DsnParse \/ DsnFormat \/ DsnReparse \/ AddressParse \/ AddressFormat

DsnSpec == DsnInit /\ [][DsnNext]_vars

\* -------------------------------------------------------- claims, mdsn
DsnDone == dsn.pc \in {"formatted", "reparsed"}

\* The input of the run written as driver+tcp://user@addrs/db?params.
PlusForm(x) ==
  <<"taos", "+", "tcp", "://">> \o x.user \o Sep(x.addrs, ",") \o x.db
  \o (IF x.params = <<>> THEN <<>> ELSE <<"?">> \o Sep(x.params, "&"))

\* C11: for every DSN string that from_str accepts, parsing the Display output
\* of the parsed Dsn gives a Dsn equal to the first parse; an input in the
\* inline-protocol form driver://user@proto(addrs)/db parses to the Dsn of
\* driver+proto://user@addrs/db and is re-emitted in that form.
C11_RoundTrip ==
  /\ dsn.pc = "reparsed" => (dsn.r.ok /\ dsn.r.v = dsn.d.v)
  /\ (DsnDone /\ dsn.in.kind = "inline") =>
       /\ Dsn_from_str(PlusForm(dsn.in)).ok
       /\ Dsn_from_str(PlusForm(dsn.in)).v = dsn.d.v
       /\ SubSeq(dsn.out.toks, 1, 4) = <<"taos", "+", "tcp", "://">>
       /\ \A i \in DOMAIN dsn.out.toks : dsn.out.toks[i] \notin {"(", ")"}

\* An inline-protocol input with two addresses, one with a port written with a
\* leading zero, has been parsed, formatted to another text and parsed again.
C11_Witness ==
  /\ dsn.pc = "reparsed" /\ dsn.in.kind = "inline" /\ Len(dsn.in.addrs) = 2
  /\ dsn.in.addrs[2] = <<"h2", ":", "06030">>
  /\ dsn.out.toks # dsn.in.s /\ dsn.in.params # <<>>

\* The places of the parameter names in a text.
NamePlaces(toks) == {i \in DOMAIN toks : At(toks, i + 1) = "="}

Ascending(toks) ==
  \A i, j \in NamePlaces(toks) : i < j => StrRank(toks[i]) < StrRank(toks[j])

SameNames(toks, params) ==
  {toks[i] : i \in NamePlaces(toks)} = {params[n][1] : n \in DOMAIN params}

DistinctNames(params) ==
  \A m, n \in DOMAIN params : m # n => params[m][1] # params[n][1]

\* C12, as stated: Display lists the parameters in ascending key order whatever
\* their order in the input, each key once, and two inputs that differ only in
\* the order of their parameters are re-emitted as the same string.
C12_ParamOrder ==
  DsnDone => /\ Ascending(dsn.out.toks)
             /\ SameNames(dsn.out.toks, dsn.in.params)
             /\ dsn.out.toks = dsn.out2.toks

\* C12, amended: Display lists the parameters in ascending key order whatever
\* their order in the input, each key once; two inputs that differ only in the
\* order of their parameters, and in which no key occurs twice, are re-emitted as
\* the same string.
C12_ParamOrderDistinctKeys ==
  DsnDone => /\ Ascending(dsn.out.toks)
             /\ SameNames(dsn.out.toks, dsn.in.params)
             /\ DistinctNames(dsn.in.params) => dsn.out.toks = dsn.out2.toks

\* An input with b before a, and the same input with a before b, were formatted.
C12_Witness ==
  /\ DsnDone /\ Len(dsn.in.params) = 2
  /\ dsn.in.params[1][1] = "b" /\ dsn.in.params[2][1] = "a"
  /\ dsn.in.params2[1][1] = "a"

WellShaped(a) == a.path.some => (~a.host.some /\ ~a.port.some)

\* The address a is the one written as the lexemes form.
Written(a, form) ==
  /\ a.host.some <=> form[1] \in Idents
  /\ a.host.some => a.host.v = form[1]
  /\ a.path.some <=> form[1] \in PathToks
  /\ a.port.some <=> (\E i \in DOMAIN form : form[i] = ":")
  /\ a.port.some => a.port.v = u16_parse(form[Len(form)]).v

\* C13: every Address that Dsn::from_str or Address::from_str produces is a host
\* with an optional port, a port, a path, or empty: a path never comes with a
\* host or a port, so Display for Address never reaches its unreachable branch;
\* the addresses of a list are stored in the order of the input.
C13_AddressShape ==
  /\ dsn.pc # "panicked"
  /\ dsn.pc \in {"addr_parsed", "addr_formatted"} => WellShaped(dsn.a.v)
  /\ dsn.pc \in {"parsed", "formatted", "reparsed"} =>
       /\ \A i \in DOMAIN dsn.d.v.addresses : WellShaped(dsn.d.v.addresses[i])
       /\ Len(dsn.d.v.addresses)
            = IF dsn.in.kind \in {"plain", "inline"} THEN Len(dsn.in.addrs) ELSE 0
       /\ \A i \in DOMAIN dsn.d.v.addresses : Written(dsn.d.v.addresses[i], dsn.in.addrs[i])

\* A path address followed by a host address was parsed and formatted.
C13_Witness ==
  /\ dsn.pc = "formatted" /\ Len(dsn.d.v.addresses) = 2
  /\ dsn.d.v.addresses[1].path.some /\ dsn.d.v.addresses[2].host.some
  /\ dsn.d.v.addresses[2].port.some

\* ===================================================== TaosBuilder::from_dsn
(***************************************************************************)
(* TaosBuilder::from_dsn (src/taos-ws/src/lib.rs), applied to a Dsn.       *)
(***************************************************************************)
Drivers   == {"ws", "http", "wss", "https", "taos", "taosws", "tmq", "mysql"}
Protocols == {None} \cup {Some(x) : x \in {"ws", "http", "wss", "https", "tcp"}}

\* A scheme that follows the driver only.
Scheme_ignoreProtocol(driver, protocol) ==
  IF driver \in {"wss", "https"} THEN "wss"
  ELSE IF driver \in {"ws", "http", "taos", "taosws", "tmq"} THEN "ws"
  ELSE ""

\* match (dsn.driver.as_str(), dsn.protocol.as_ref().map(|s| s.as_str())),
\* arm by arm; "" stands for the last arm, Err(DsnError::InvalidDriver(..))?.
Scheme(driver, protocol) ==
  IF driver \in {"ws", "http"} THEN "ws"
  ELSE IF driver \in {"wss", "https"} THEN "wss"
  ELSE IF driver \in {"taos", "taosws", "tmq"}
          /\ (~protocol.some \/ protocol.v \in {"ws", "http"}) THEN "ws"
  ELSE IF driver \in {"taos", "taosws", "tmq"}
          /\ protocol.some /\ protocol.v \in {"wss", "https"} THEN "wss"
  ELSE ""

NoBuilder == [scheme |-> "", addr |-> <<>>, auth |-> <<>>, database |-> None]

\* TaosBuilder::from_dsn after dsn.into_dsn()?.
from_dsn(d) ==
  IF Scheme(d.driver, d.protocol) = ""
  THEN [ok |-> FALSE, err |-> "InvalidDriver", v |-> NoBuilder]
  ELSE [ok |-> TRUE, err |-> "",
        v |-> [scheme   |-> Scheme(d.driver, d.protocol),
               addr     |-> IF d.addresses # <<>> THEN Address_fmt(d.addresses[1]).toks
                            ELSE <<"localhost", ":", "6041">>,
               auth     |-> IF "token" \in DOMAIN d.params
                            THEN <<"Token", d.params["token"]>>
                            ELSE <<"Plain",
                                   IF d.username.some THEN d.username.v ELSE "root",
                                   IF d.password.some THEN d.password.v ELSE "taosdata">>,
               database |-> d.database]]

\* The Dsn values from_dsn is applied to.
BuilderInit ==
  /\ ClientInit /\ nulls = NullsIdle /\ raw = RawIdle
  /\ \E dr \in Drivers, pr \in Protocols, a \in {<<>>, <<[AddressDefault EXCEPT !.host = Some("h1")]>>},
        u \in {None, Some("u")}, ps \in {[x \in {} |-> ""], [x \in {"token"} |-> "t"]} :
        dsn = [pc |-> "dsn_given",
               d  |-> [DsnDefault EXCEPT !.driver = dr, !.protocol = pr, !.addresses = a,
                                         !.username = u, !.password = u, !.params = ps]]

\* let b = TaosBuilder::from_dsn(d)
BuilderFromDsn ==
  /\ dsn.pc = "dsn_given"
  /\ dsn' = [pc |-> IF from_dsn(dsn.d).ok THEN "built" ELSE "not_built",
             d |-> dsn.d, b |-> from_dsn(dsn.d)]
  /\ UNCHANGED dsnFrame

BuilderSpec == BuilderInit /\ [][BuilderFromDsn]_vars

\* C14: from_dsn takes the scheme from (driver, protocol): ws for driver ws or
\* http and wss for driver wss or https, whatever the protocol; for driver
\* taos, taosws or tmq, ws when the protocol is ws, http or absent and wss when
\* it is wss or https; any other combination is InvalidDriver and no builder.
C14_SchemeSelection ==
  dsn.pc \in {"built", "not_built"} =>
    LET dr  == dsn.d.driver
        pr  == dsn.d.protocol
        byp == dr \in {"taos", "taosws", "tmq"}
        ws  == dr \in {"ws", "http"} \/ (byp /\ (~pr.some \/ pr.v \in {"ws", "http"}))
        wss == dr \in {"wss", "https"} \/ (byp /\ pr.some /\ pr.v \in {"wss", "https"})
    IN  /\ ws  => (dsn.pc = "built" /\ dsn.b.ok /\ dsn.b.v.scheme = "ws")
        /\ wss => (dsn.pc = "built" /\ dsn.b.ok /\ dsn.b.v.scheme = "wss")
        /\ ~(ws \/ wss) => (dsn.pc = "not_built" /\ ~dsn.b.ok /\ dsn.b.err = "InvalidDriver"
                            /\ dsn.b.v = NoBuilder)

\* A builder was made for driver tmq with protocol https.
C14_Witness ==
  /\ dsn.pc = "built" /\ dsn.d.driver = "tmq" /\ dsn.d.protocol = Some("https")
  /\ dsn.b.v.scheme = "wss"

\* ================================================================= NullsMut
(***************************************************************************)
(* NullsMut (src/taos-query/src/common/raw/views/nulls.rs): the bitmap of  *)
(* the null rows of a column.  A byte is a number in 0..255.               *)
(***************************************************************************)
MaxRows == 9           \* rows of a column

\* (byte >> k) & 0x1
Bit(byte, k) == (byte \div 2^k) % 2
\* byte | (1 << k)
BitOr1(byte, k) == IF Bit(byte, k) = 1 THEN byte ELSE byte + 2^k

\* NullsMut::new(len): bytes.resize(bytes_len, 0)
NullsMut_new(len) == [b \in 1..((len + 7) \div 8) |-> 0]

\* NullsMut::is_null_unchecked(row); byte row >> 3 is element (row >> 3) + 1 here.
is_null_unchecked(bytes, row) == Bit(bytes[(row \div 8) + 1], 7 - (row % 8)) = 1

\* A right-to-left bitmap.
set_null_unchecked_rtl(bytes, index) ==
  [bytes EXCEPT ![(index \div 8) + 1] = BitOr1(@, index % 8)]

\* NullsMut::set_null_unchecked(index): *loc |= 1 << (7 - (index & 7))
set_null_unchecked(bytes, index) ==
  [bytes EXCEPT ![(index \div 8) + 1] = BitOr1(@, 7 - (index % 8))]

\* iter.enumerate().for_each(|(i, is_null)| if is_null { set_null_unchecked(i) }), from row i on
RECURSIVE from_bools_each(_, _, _)
from_bools_each(bs, i, bytes) ==
  IF i >= Len(bs) THEN bytes
  ELSE from_bools_each(bs, i + 1, IF bs[i + 1] THEN set_null_unchecked(bytes, i) ELSE bytes)

\* NullsMut::from_bools(iter)
from_bools(bs) == from_bools_each(bs, 0, NullsMut_new(Len(bs)))

\* The columns of bools from_bools is applied to.
NullsInit ==
  /\ ClientInit /\ dsn = DsnIdle /\ raw = RawIdle
  /\ \E n \in 0..MaxRows : \E bs \in [1..n -> BOOLEAN] :
        nulls = [pc |-> "bools", bs |-> bs]

\* let nulls = NullsMut::from_bools(bs)
NullsFromBools ==
  /\ nulls.pc = "bools"
  /\ nulls' = [pc |-> "built", bs |-> nulls.bs, bytes |-> from_bools(nulls.bs)]
  /\ UNCHANGED nullsFrame

\* nulls.set_null_unchecked(row), for a row of the column
NullsSetNull ==
  /\ nulls.pc = "built"
  /\ \E row \in 0..(Len(nulls.bs) - 1) :
        nulls' = [pc |-> "set", bs |-> nulls.bs, before |-> nulls.bytes, row |-> row,
                  bytes |-> set_null_unchecked(nulls.bytes, row)]
  /\ UNCHANGED nullsFrame

NullsNext == NullsFromBools \/ NullsSetNull
NullsSpec == NullsInit /\ [][NullsNext]_vars

\* The value of byte b (from 0) of a left-to-right bitmap of bs: the sum of
\* 2^(7-j) over the rows 8b+j of bs that are null, j from 0 to 7.
RECURSIVE LeftToRightByte(_, _, _)
LeftToRightByte(bs, b, j) ==
  IF j > 7 THEN 0
  ELSE (IF 8 * b + j < Len(bs) /\ bs[8 * b + j + 1] THEN 2^(7 - j) ELSE 0)
       + LeftToRightByte(bs, b, j + 1)

\* C15: the bitmap from_bools builds has ceil(len/8) bytes (none for an empty
\* column), reads back is_null(i) = bs[i] for every row, and keeps row i as bit
\* 7 - (i mod 8) of byte i div 8; setting the bit of one row makes that row
\* null and changes no other row.
C15_NullBitmap ==
  /\ nulls.pc \in {"built", "set"} =>
       /\ 8 * Len(nulls.bytes) >= Len(nulls.bs)
       /\ 8 * Len(nulls.bytes) < Len(nulls.bs) + 8
       /\ (nulls.bs = <<>> => nulls.bytes = <<>>)
  /\ nulls.pc = "built" =>
       /\ \A i \in 0..(Len(nulls.bs) - 1) : is_null_unchecked(nulls.bytes, i) = nulls.bs[i + 1]
       /\ \A b \in 0..(Len(nulls.bytes) - 1) : nulls.bytes[b + 1] = LeftToRightByte(nulls.bs, b, 0)
  /\ nulls.pc = "set" =>
       /\ is_null_unchecked(nulls.bytes, nulls.row)
       /\ \A i \in 0..(Len(nulls.bs) - 1) :
            i # nulls.row => is_null_unchecked(nulls.bytes, i) = is_null_unchecked(nulls.before, i)

\* A column of 9 rows where row 8, not null before, has been set, with rows 0
\* and 7 null and row 1 not.
C15_Witness ==
  /\ nulls.pc = "set" /\ Len(nulls.bs) = 9 /\ nulls.row = 8
  /\ ~nulls.bs[9] /\ nulls.bs[1] /\ nulls.bs[8] /\ ~nulls.bs[2]
  /\ nulls.before = <<129, 0>> /\ nulls.bytes = <<129, 128>>

\* ================================================================ raw blocks
(***************************************************************************)
(* RawData (src/taos-query/src/common/raw/mod.rs): the parsers of the v2   *)
(* and v3 raw blocks.  A buffer is a sequence of bytes, a byte a number in *)
(* 0..255; byte offset o of the code is element o + 1 here.  A value wider *)
(* than a byte is written as its base-256 digits, most significant first,  *)
(* the way the hexadecimal literals of the source are written, so that 64  *)
(* bit patterns need no 64 bit number.                                     *)
(***************************************************************************)
MaxCols      == 2      \* columns of a block
MaxBlockRows == 2      \* rows of a block

FixedTys == {"Bool", "TinyInt", "UTinyInt", "SmallInt", "USmallInt", "Int", "UInt",
             "BigInt", "UBigInt", "Timestamp", "Float", "Double"}

\* std::mem::size_of::<$prim>() of the element type of a column
SizeOf(ty) ==
  CASE ty \in {"Bool", "TinyInt", "UTinyInt"}                 -> 1
    [] ty \in {"SmallInt", "USmallInt"}                       -> 2
    [] ty \in {"Int", "UInt", "Float"}                        -> 4
    [] ty \in {"BigInt", "UBigInt", "Timestamp", "Double"}    -> 8

\* The literal each column type's element is compared with.
NullLiteral(ty) ==
  CASE ty = "Bool"      -> <<2>>                                      \* BOOL_NULL = 0x02
    [] ty = "TinyInt"   -> <<128>>                                    \* 0x80
    [] ty = "SmallInt"  -> <<128, 0>>                                 \* 0x8000
    [] ty = "Int"       -> <<128, 0, 0, 0>>                           \* 0x80000000
    [] ty = "BigInt"    -> <<128, 0, 0, 0, 0, 0, 0, 0>>               \* 0x8000000000000000
    [] ty = "UTinyInt"  -> <<255>>                                    \* 0xFF
    [] ty = "USmallInt" -> <<255, 255>>                               \* 0xFFFF
    [] ty = "UInt"      -> <<255, 255, 255, 255>>                     \* 0xFFFFFFFF
    [] ty = "UBigInt"   -> <<255, 255, 255, 255, 255, 255, 255, 255>> \* 0xFFFFFFFFFFFFFFFF
    [] ty = "Float"     -> <<127, 240, 0, 0>>                         \* 0x7FF00000
    [] ty = "Double"    -> <<127, 255, 255, 0, 0, 0, 0, 0>>           \* 0x7FFFFF0000000000
    [] ty = "Timestamp" -> <<128, 0, 0, 0, 0, 0, 0, 0>>               \* BIG_INT_NULL

\* A load that takes the byte at the lowest address as the most significant.
Load_msf(data, at, size) == [k \in 1..size |-> data[at + k]]

\* *(v as *const uN), v pointing at offset `at` of data: the bytes at+size-1
\* down to at are the digits of the value (the targets are little-endian).
Load(data, at, size) == [k \in 1..size |-> data[at + size - k + 1]]

\* value_slice.iter().map(|v| <ty>_is_null(v)) for a column of `rows` elements
ColumnNulls(ty, data, rows) ==
  [r \in 1..rows |-> Load(data, (r - 1) * SizeOf(ty), SizeOf(ty)) = NullLiteral(ty)]

\* One turn of `for (i, (field, length)) in fields.zip(lengths).enumerate()`
\* for a fixed-width column.  bytes.slice(start..offset) panics beyond the
\* buffer; std::slice::from_raw_parts on a pointer that is not aligned for
\* $prim is undefined (`aligned` records that no column was so far).
V2Column(acc, bytes, ty, rows, base) ==
  IF ~acc.ok THEN acc
  ELSE IF acc.offset + rows * SizeOf(ty) > Len(bytes) THEN [acc EXCEPT !.ok = FALSE]
  ELSE [ok      |-> TRUE,
        aligned |-> acc.aligned /\ (ty = "Bool" \/ (base + acc.offset) % SizeOf(ty) = 0),
        offset  |-> acc.offset + rows * SizeOf(ty),
        lengths |-> Append(acc.lengths, rows * SizeOf(ty)),
        columns |-> Append(acc.columns,
                      [ty    |-> ty,
                       start |-> acc.offset,
                       data  |-> SubSeq(bytes, acc.offset + 1, acc.offset + rows * SizeOf(ty)),
                       nulls |-> from_bools(ColumnNulls(ty,
                                   SubSeq(bytes, acc.offset + 1, acc.offset + rows * SizeOf(ty)),
                                   rows))])]

\* The column types whose rows are slots of `length` bytes.
VarTys == {"VarChar", "NChar", "Json"}

\* An offset that is -1 whenever the bytes after the length prefix are the null
\* marker's, whatever the prefix says.
VarOffset_anyLength(data, ty, length, row) ==
  IF ty = "VarChar"
  THEN IF data[row * length + 3] = 255 THEN -1 ELSE row * length
  ELSE IF Load(data, row * length + 2, 4) = <<255, 255, 255, 255>> THEN -1 ELSE row * length

\* The closure of Offsets::from_offsets for one row: len is the u16 at the
\* slot's start; VarChar: len == 1 && *ptr.offset(2) == 0xFF, NChar and Json:
\* len == 4 && *(ptr.offset(2) as *const u32) == 0xFFFFFFFF.
VarOffset(data, ty, length, row) ==
  IF ty = "VarChar"
  THEN IF Load(data, row * length, 2) = <<0, 1>> /\ data[row * length + 3] = 255
       THEN -1 ELSE row * length
  ELSE IF /\ Load(data, row * length, 2) = <<0, 4>>
          /\ Load(data, row * length + 2, 4) = <<255, 255, 255, 255>>
       THEN -1 ELSE row * length

\* One turn of the loop for a VarChar, NChar or Json column.  Reading the u16
\* (and, after a len of 4, the u32) through a pointer that is not aligned for
\* it is undefined (`aligned`).
V2VarColumn(acc, bytes, ty, length, rows, base) ==
  IF ~acc.ok THEN acc
  ELSE IF acc.offset + length * rows > Len(bytes) THEN [acc EXCEPT !.ok = FALSE]
  ELSE LET data == SubSeq(bytes, acc.offset + 1, acc.offset + length * rows) IN
       [ok      |-> TRUE,
        aligned |-> /\ acc.aligned
                    /\ \A row \in 0..(rows - 1) :
                         /\ (base + acc.offset + row * length) % 2 = 0
                         /\ (ty # "VarChar" /\ Load(data, row * length, 2) = <<0, 4>>) =>
                              (base + acc.offset + row * length + 2) % 4 = 0,
        offset  |-> acc.offset + length * rows,
        lengths |-> Append(acc.lengths, length * rows),
        columns |-> Append(acc.columns,
                      [ty      |-> ty,
                       start   |-> acc.offset,
                       data    |-> data,
                       offsets |-> [r \in 1..rows |-> VarOffset(data, ty, length, r - 1)]])]

RECURSIVE V2Columns(_, _, _, _, _, _, _)
V2Columns(acc, bytes, fields, lengths, rows, base, i) ==
  IF i > Len(fields) THEN acc
  ELSE V2Columns(IF fields[i] \in VarTys
                 THEN V2VarColumn(acc, bytes, fields[i], lengths[i], rows, base)
                 ELSE V2Column(acc, bytes, fields[i], rows, base),
                 bytes, fields, lengths, rows, base, i + 1)

\* A parser that takes the row count for the column count.
parse_from_raw_block_v2_rowsAsCols(bytes, fields, lengths, rows, base) ==
  V2Columns([ok |-> TRUE, aligned |-> TRUE, offset |-> 0, lengths |-> <<>>, columns |-> <<>>],
            bytes, fields, lengths, rows, base, 1)
    @@ [cols |-> rows,
        schemas |-> [c \in 1..rows |-> [ty |-> fields[1], bytes |-> lengths[1]]]]

\* RawData::parse_from_raw_block_v2(bytes, fields, lengths, rows, precision),
\* lengths being the element sizes of the fixed-width fields and the slot
\* lengths of the others; base is the address of bytes modulo 8.  The result
\* has cols, the schemas made of the fields, lengths (data_lengths) and columns.
parse_from_raw_block_v2(bytes, fields, lengths, rows, base) ==
  V2Columns([ok |-> TRUE, aligned |-> TRUE, offset |-> 0, lengths |-> <<>>, columns |-> <<>>],
            bytes, fields, lengths, rows, base, 1)
    @@ [cols |-> Len(fields),
        schemas |-> [c \in 1..Len(fields) |-> [ty |-> fields[c], bytes |-> lengths[c]]]]

\* ---- the blocks given to the parser
\* Element contents, as they lie in the buffer, four per element size.
Patterns(size) ==
  CASE size = 1 -> << <<2>>, <<128>>, <<255>>, <<0>> >>
    [] size = 2 -> << <<0, 128>>, <<255, 255>>, <<128, 0>>, <<0, 0>> >>
    [] size = 4 -> << <<0, 0, 0, 128>>, <<255, 255, 255, 255>>, <<0, 0, 240, 127>>,
                      <<128, 0, 0, 0>> >>
    [] size = 8 -> << <<0, 0, 0, 0, 0, 0, 0, 128>>, <<255, 255, 255, 255, 255, 255, 255, 255>>,
                      <<0, 0, 0, 0, 0, 255, 255, 127>>, <<128, 0, 0, 0, 0, 0, 0, 0>> >>

RECURSIVE ColumnBytes(_, _, _)
ColumnBytes(ty, picks, r) ==
  IF r > Len(picks) THEN <<>>
  ELSE Patterns(SizeOf(ty))[picks[r]] \o ColumnBytes(ty, picks, r + 1)

RECURSIVE BlockBytes(_, _, _)
BlockBytes(fields, picks, c) ==
  IF c > Len(fields) THEN <<>>
  ELSE ColumnBytes(fields[c], picks[c], 1) \o BlockBytes(fields, picks, c + 1)

\* Slot contents of a VarChar and of an NChar or Json column, the first being
\* the null marker; a slot of `length` bytes is filled up with zeros.
VarPatterns(ty) ==
  IF ty = "VarChar"
  THEN << <<1, 0, 255>>, <<1, 0, 65>>, <<0, 1, 255>>, <<0, 0, 255>> >>
  ELSE << <<4, 0, 255, 255, 255, 255>>, <<4, 0, 65, 0, 0, 0>>,
          <<0, 4, 255, 255, 255, 255>>, <<2, 0, 255, 255, 255, 255>> >>

\* The length the server gives for a column: the element size, or the slot
\* length of a column of strings with `more` bytes beyond the shortest.
FieldLength(ty, more) ==
  IF ty = "VarChar" THEN 3 + more ELSE IF ty \in VarTys THEN 6 + more ELSE SizeOf(ty)

RECURSIVE VarColumnBytes(_, _, _, _)
VarColumnBytes(ty, length, picks, r) ==
  IF r > Len(picks) THEN <<>>
  ELSE VarPatterns(ty)[picks[r]]
         \o [k \in 1..(length - Len(VarPatterns(ty)[picks[r]])) |-> 0]
         \o VarColumnBytes(ty, length, picks, r + 1)

RECURSIVE V2Bytes(_, _, _, _)
V2Bytes(fields, lengths, picks, c) ==
  IF c > Len(fields) THEN <<>>
  ELSE (IF fields[c] \in VarTys THEN VarColumnBytes(fields[c], lengths[c], picks[c], 1)
        ELSE ColumnBytes(fields[c], picks[c], 1))
         \o V2Bytes(fields, lengths, picks, c + 1)

V2Init ==
  /\ ClientInit /\ dsn = DsnIdle /\ nulls = NullsIdle
  /\ \E cols \in 1..MaxCols, rows \in 1..MaxBlockRows, base \in {0, 1} :
       \/ \E fields \in [1..cols -> FixedTys], picks \in [1..cols -> [1..rows -> 1..4]] :
             raw = [pc |-> "v2_given", fields |-> fields, rows |-> rows, base |-> base,
                    lengths |-> [c \in 1..cols |-> SizeOf(fields[c])],
                    bytes |-> BlockBytes(fields, picks, 1)]
       \/ \E fields \in [1..cols -> VarTys \cup {"SmallInt"}], more \in {0, 2},
             picks \in [1..cols -> [1..rows -> 1..4]] :
             raw = [pc |-> "v2_given", fields |-> fields, rows |-> rows, base |-> base,
                    lengths |-> [c \in 1..cols |-> FieldLength(fields[c], more)],
                    bytes |-> V2Bytes(fields, [c \in 1..cols |-> FieldLength(fields[c], more)],
                                      picks, 1)]

\* let raw = RawData::parse_from_raw_block_v2(bytes, fields, lengths, rows, precision)
RawParseV2 ==
  /\ raw.pc = "v2_given"
  /\ LET res == parse_from_raw_block_v2(raw.bytes, raw.fields, raw.lengths, raw.rows, raw.base)
     IN  \/ /\ res.ok
            /\ raw' = [raw EXCEPT !.pc = "v2_parsed"]
                         @@ [cols |-> res.cols, schemas |-> res.schemas,
                             data_lengths |-> res.lengths, columns |-> res.columns]
         \/ /\ ~res.ok \/ ~res.aligned
            /\ raw' = [raw EXCEPT !.pc = "panicked"]
  /\ UNCHANGED rawFrame

\* ---- v3
ColSchemaSize == 6     \* std::mem::size_of::<ColSchema>()
GROUP_ID_OFFSET == 4   \* std::mem::size_of::<u32>()
SCHEMA_OFFSET == 12    \* GROUP_ID_OFFSET + std::mem::size_of::<u64>()

\* n as a u32 in the buffer, and a u32 of the buffer as a number (blocks here
\* are far shorter than 2^16 bytes, so the digits never overflow).
U32Bytes(n) == <<n % 256, (n \div 256) % 256, 0, 0>>
U32At(bytes, at) ==
  Load(bytes, at, 4)[4] + 256 * Load(bytes, at, 4)[3]
    + 65536 * Load(bytes, at, 4)[2] + 16777216 * Load(bytes, at, 4)[1]

\* The type tags of the columns used here, and schema.ty of a tag.
TagOf(ty) == CASE ty = "TinyInt" -> 2 [] ty = "Int" -> 4 [] ty = "VarChar" -> 8
TyOfTag(tag) == CASE tag = 2 -> "TinyInt" [] tag = 4 -> "Int" [] tag = 8 -> "VarChar"

\* One turn of `for col in 0..cols`: the column's two slices and the
\* debug_assert!(data_offset <= len) after it.
V3Column(acc, bytes, rows, cols, col, len) ==
  IF ~acc.ok THEN acc
  ELSE LET ty     == TyOfTag(bytes[SCHEMA_OFFSET + ColSchemaSize * col + 1])
           length == U32At(bytes, SCHEMA_OFFSET + ColSchemaSize * cols + 4 * col)
           o1     == acc.data_offset
           o2     == IF ty = "VarChar" THEN o1 + 4 * rows ELSE o1 + ((rows + 7) \div 8)
           end    == IF ty = "VarChar" THEN o2 + length ELSE o2 + rows * SizeOf(ty)
       IN  IF end > Len(bytes) THEN [acc EXCEPT !.ok = FALSE]
           ELSE [ok          |-> TRUE,
                 asserted    |-> acc.asserted /\ end <= len,
                 data_offset |-> end,
                 columns     |-> Append(acc.columns, [ty |-> ty, o1 |-> o1, o2 |-> o2, end |-> end])]

RECURSIVE V3Columns(_, _, _, _, _, _)
V3Columns(acc, bytes, rows, cols, col, len) ==
  IF col >= cols THEN acc
  ELSE V3Columns(V3Column(acc, bytes, rows, cols, col, len), bytes, rows, cols, col + 1, len)

\* RawData::parse_from_raw_block(bytes, rows, cols, precision): ok is FALSE when
\* a bytes.slice(..) is out of the buffer, asserted is FALSE when a
\* debug_assert!(data_offset <= len) does not hold.
parse_from_raw_block(bytes, rows, cols) ==
  IF SCHEMA_OFFSET + ColSchemaSize * cols + 4 * cols > Len(bytes)
  THEN [ok |-> FALSE, asserted |-> TRUE, data_offset |-> 0, columns |-> <<>>]
  ELSE V3Columns([ok |-> TRUE, asserted |-> TRUE,
                  data_offset |-> SCHEMA_OFFSET + ColSchemaSize * cols + 4 * cols,
                  columns |-> <<>>],
                 bytes, rows, cols, 0, U32At(bytes, 0))

\* ---- the v3 blocks given to the parser
Zeros(n) == [k \in 1..n |-> 0]

RECURSIVE V3Schemas(_, _)
V3Schemas(tys, c) ==
  IF c > Len(tys) THEN <<>>
  ELSE <<TagOf(tys[c]), 0>> \o U32Bytes(IF tys[c] = "VarChar" THEN 8 ELSE SizeOf(tys[c]))
       \o V3Schemas(tys, c + 1)

RECURSIVE V3Lengths(_, _, _, _)
V3Lengths(tys, rows, var, c) ==
  IF c > Len(tys) THEN <<>>
  ELSE U32Bytes(IF tys[c] = "VarChar" THEN var ELSE rows * SizeOf(tys[c]))
       \o V3Lengths(tys, rows, var, c + 1)

RECURSIVE V3PayloadLen(_, _, _, _)
V3PayloadLen(tys, rows, var, c) ==
  IF c > Len(tys) THEN 0
  ELSE (IF tys[c] = "VarChar" THEN 4 * rows + var ELSE ((rows + 7) \div 8) + rows * SizeOf(tys[c]))
       + V3PayloadLen(tys, rows, var, c + 1)

\* A block of the columns tys whose header declares `more` bytes more than the
\* columns take and whose buffer holds `pad` bytes more than they take.
V3Block(tys, rows, var, more, pad) ==
  U32Bytes(SCHEMA_OFFSET + 10 * Len(tys) + V3PayloadLen(tys, rows, var, 1) + more)
    \o Zeros(8) \o V3Schemas(tys, 1) \o V3Lengths(tys, rows, var, 1)
    \o Zeros(V3PayloadLen(tys, rows, var, 1) + pad)

V3Init ==
  /\ ClientInit /\ dsn = DsnIdle /\ nulls = NullsIdle
  /\ \E cols \in 1..MaxCols, rows \in 1..MaxBlockRows, base \in {0, 4}, debug \in BOOLEAN :
       \E tys \in [1..cols -> {"TinyInt", "Int", "VarChar"}], var \in {0, 3},
          more \in {-1, 0, 1}, pad \in {-1, 0, 1} :
          raw = [pc |-> "v3_given", rows |-> rows, cols |-> cols, base |-> base,
                 debug |-> debug, bytes |-> V3Block(tys, rows, var, more, pad)]

\* let raw = RawData::parse_from_raw_block(bytes, rows, cols, precision).
\* The reads *(ptr as *const u32) and *(ptr.offset(4) as *const u64) are
\* undefined when ptr is not aligned for them.
RawParseV3 ==
  /\ raw.pc = "v3_given"
  /\ LET res == parse_from_raw_block(raw.bytes, raw.rows, raw.cols)
     IN  \/ /\ res.ok /\ (raw.debug => res.asserted)
            /\ raw' = [raw EXCEPT !.pc = "v3_parsed"] @@ [columns |-> res.columns,
                                                          data_offset |-> res.data_offset]
         \/ /\ ~res.ok \/ (raw.debug /\ ~res.asserted) \/ (raw.base + GROUP_ID_OFFSET) % 8 # 0
            /\ raw' = [raw EXCEPT !.pc = "panicked"]
  /\ UNCHANGED rawFrame

BlockInit == V2Init \/ V3Init
BlockNext == RawParseV2 \/ RawParseV3
BlockSpec == BlockInit /\ [][BlockNext]_vars

\* ---- C16
\* The sentinel of each fixed-width type, as its bytes lie in the buffer.
SentinelBytes(ty) ==
  CASE ty = "Bool"                    -> <<2>>
    [] ty = "TinyInt"                 -> <<128>>
    [] ty = "UTinyInt"                -> <<255>>
    [] ty = "SmallInt"                -> <<0, 128>>
    [] ty = "USmallInt"               -> <<255, 255>>
    [] ty = "Int"                     -> <<0, 0, 0, 128>>
    [] ty = "UInt"                    -> <<255, 255, 255, 255>>
    [] ty \in {"BigInt", "Timestamp"} -> <<0, 0, 0, 0, 0, 0, 0, 128>>
    [] ty = "UBigInt"                 -> <<255, 255, 255, 255, 255, 255, 255, 255>>
    [] ty = "Float"                   -> <<0, 0, 240, 127>>
    [] ty = "Double"                  -> <<0, 0, 0, 0, 0, 255, 255, 127>>

\* Where column c of the given block starts: each column before it takes rows
\* times its length (the element size, or the slot length of a string column).
RECURSIVE ColumnStart(_, _, _)
ColumnStart(lengths, rows, c) ==
  IF c = 1 THEN 0 ELSE ColumnStart(lengths, rows, c - 1) + rows * lengths[c - 1]

\* The bytes of row r (from 0) of column c of the given block.
Element(c, r) ==
  SubSeq(raw.bytes,
         ColumnStart(raw.lengths, raw.rows, c) + r * SizeOf(raw.fields[c]) + 1,
         ColumnStart(raw.lengths, raw.rows, c) + (r + 1) * SizeOf(raw.fields[c]))

\* C16: in the block parse_from_raw_block_v2 makes, an element of a fixed-width
\* column is null in the column's bitmap exactly when its bytes are the
\* sentinel of the column's type in little-endian order.
C16_SentinelNulls ==
  raw.pc = "v2_parsed" =>
    \A c \in 1..Len(raw.fields) : raw.fields[c] \in FixedTys =>
      \A r \in 0..(raw.rows - 1) :
         is_null_unchecked(raw.columns[c].nulls, r) <=> (Element(c, r) = SentinelBytes(raw.fields[c]))

\* A parsed block of two rows with a Float column after an Int column: the Int
\* 0x80000000 is null and the Int 0x7FF00000 is not, the Float 0x7FF00000 is
\* null and the Float 0x80000000 is not.
C16_Witness ==
  /\ raw.pc = "v2_parsed" /\ raw.fields = <<"Int", "Float">> /\ raw.rows = 2
  /\ raw.bytes = <<0, 0, 0, 128, 0, 0, 240, 127, 0, 0, 240, 127, 0, 0, 0, 128>>
  /\ is_null_unchecked(raw.columns[1].nulls, 0) /\ ~is_null_unchecked(raw.columns[1].nulls, 1)
  /\ is_null_unchecked(raw.columns[2].nulls, 0) /\ ~is_null_unchecked(raw.columns[2].nulls, 1)

\* ---- C17
\* The total byte length the first 4 bytes of the given buffer declare.
DeclaredLength == raw.bytes[1] + 256 * raw.bytes[2] + 65536 * raw.bytes[3]

\* C17: parse_from_raw_block takes the columns in declared order, and a
\* RawData is made only of a buffer whose columns end exactly at the total
\* byte length its header declares.
C17_ConsumedEqualsDeclared ==
  raw.pc = "v3_parsed" =>
    /\ raw.data_offset = DeclaredLength
    /\ \A c \in 1..raw.cols :
         /\ raw.columns[c].ty = TyOfTag(raw.bytes[SCHEMA_OFFSET + ColSchemaSize * (c - 1) + 1])
         /\ raw.columns[c].o1 = IF c = 1 THEN SCHEMA_OFFSET + 10 * raw.cols
                                ELSE raw.columns[c - 1].end

\* ============================================ claims, reader and writer tasks
\* The reader task takes the frame at the head of the socket in this step.
ReaderStep == ReaderTakes /\ rstate = "running" /\ ~rhold.on

\* ... and the frame is a fetch response with completed = true.
ReadsCompleted ==
  ReaderStep /\ Head(inbox).t = "text" /\ Head(inbox).action = "fetch" /\ Head(inbox).completed

\* C18 as claimed: once the reader has read completed = true for a res_id, and
\* likewise once the owning ResultSet is dropped, fetches has no entry for the
\* res_id; an entry belongs to a live ResultSet that a successful query
\* returned.
C18_FetchesLifecycle ==
  [][/\ ReadsCompleted => Head(inbox).id \notin DOMAIN fetches'
     /\ \A c \in Calls :
          (rs[c].st = "dropped" /\ rs[c].receiver) => rs[c].id \notin DOMAIN fetches
     /\ \A id \in DOMAIN fetches :
          /\ rs[fetches[id]].st = "live" /\ rs[fetches[id]].id = id
          /\ result[fetches[id]].tag = "rs"
    ]_vars

\* The frame the reader takes has no entry in the map it is looked up in:
\* queries for a query or write_meta response, fetches for a fetch response
\* or a binary frame.
ReadsAbsent ==
  /\ ReaderStep
  /\ IF Head(inbox).t = "binary" \/ Head(inbox).action = "fetch"
     THEN Head(inbox).id \notin DOMAIN fetches
     ELSE /\ Head(inbox).action \in {"query", "write_meta"}
          /\ Head(inbox).req_id \notin DOMAIN queries

\* C19 as claimed: a response whose req_id or res_id has no entry is
\* discarded: no one-shot slot and no fetch channel gets a value, both maps
\* stay as they are, nothing is put on the writer's channel and the reader
\* task keeps running.
C19_AbsentDiscarded ==
  [][ReadsAbsent =>
       /\ slot' = slot /\ chan' = chan /\ ~rhold'.on
       /\ queries' = queries /\ fetches' = fetches
       /\ wq' = wq
       /\ rstate' = "running"
    ]_vars

\* The position of the message m in the sequence q, 0 if it is not there.
RECURSIVE PosIn(_, _, _)
PosIn(q, m, i) == IF i > Len(q) THEN 0 ELSE IF q[i] = m THEN i ELSE PosIn(q, m, i + 1)

\* C20: only the writer task takes messages from the channel, it takes the
\* oldest one and writes exactly that one to the socket, once; every other
\* step that changes the channel appends one message at its end (or the writer
\* ends and the channel is dropped).  The fetch_block of a ResultSet is never
\* ahead of its fetch.
C20_WriterFifo ==
  [][/\ (bpc = "connected" /\ Len(wire') > Len(wire)) =>
          /\ wstate = "running" /\ wq # <<>>
          /\ wire' = Append(wire, Head(wq)) /\ wq' = Tail(wq)
     /\ (wq' # wq) =>
          \/ Len(wq') = Len(wq) + 1 /\ SubSeq(wq', 1, Len(wq)) = wq
          \/ /\ wstate = "running" /\ wq # <<>>
             /\ wq' = Tail(wq) /\ wire' = Append(wire, Head(wq))
          \/ wstate = "running" /\ wstate' \in {"failed", "closed"} /\ wq' = <<>>
     /\ \A c \in Calls :
          LET f == Msg("fetch", rs[c].req_id, rs[c].id)
              b == Msg("fetch_block", rs[c].req_id, rs[c].id)
          IN  /\ PosIn(wq', f, 1) > 0 => PosIn(wire', b, 1) = 0
              /\ (PosIn(wq', f, 1) > 0 /\ PosIn(wq', b, 1) > 0) =>
                   PosIn(wq', f, 1) < PosIn(wq', b, 1)
    ]_vars

\* The writer has written the fetch_block of a ResultSet (its fetch went
\* before) and another message waits in the channel.
C20_Witness ==
  /\ wstate = "running" /\ wq # <<>>
  /\ \E i \in DOMAIN wire : wire[i].a = "fetch_block"

\* The reader takes a fetch response or a block whose res_id has an entry.
ReadsRouted ==
  /\ ReaderStep /\ (Head(inbox).t = "binary" \/ Head(inbox).action = "fetch")
  /\ Head(inbox).id \in DOMAIN fetches

read_u64(bytes, at) ==
  IF SubSeq(bytes, at + 3, at + 8) = <<0, 0, 0, 0, 0, 0>>
  THEN bytes[at + 1] + 256 * bytes[at + 2] ELSE -1

\* (&block[8..12]).read_u32(), little-endian, as the four bytes it reads.
read_u32(bytes, at) == SubSeq(bytes, at + 1, at + 4)

\* A reader that takes a frame for a v3 block when the length field equals the
\* frame length.
BinaryData_noResId(block) ==
  IF read_u32(block, 8) = U32Bytes(Len(block)) THEN "block" ELSE "block_v2"

\* if block.len() == len as usize + 8 { WsFetchData::Block } else { WsFetchData::BlockV2 }
BinaryData(block) ==
  IF read_u32(block, 8) = U32Bytes(Len(block) - 8) THEN "block" ELSE "block_v2"

\* The Message::Binary arm: ok is FALSE when an unwrap or the slice
\* &block[8..12] panics; the value sent is block[8..].to_vec().
BinaryRoute(block) ==
  IF Len(block) < 12 THEN [ok |-> FALSE, res_id |-> 0, data |-> "", body |-> <<>>]
  ELSE [ok |-> TRUE, res_id |-> read_u64(block, 0), data |-> BinaryData(block),
        body |-> SubSeq(block, 9, Len(block))]

U64Bytes(n) == U32Bytes(n) \o <<0, 0, 0, 0>>

\* The frames: a res_id and a v3 block (whose length field may be off by one,
\* or which is cut short or padded) or a v2 block.
FrameInit ==
  /\ ClientInit /\ dsn = DsnIdle /\ nulls = NullsIdle
  /\ \E id \in {1, 258}, cols \in 1..MaxCols, rows \in 1..MaxBlockRows, base \in {0, 1} :
       \/ \E tys \in [1..cols -> {"TinyInt", "Int", "VarChar"}], var \in {0, 3},
             more \in {-1, 0, 1}, pad \in {-1, 0, 1} :
             raw = [pc |-> "frame_given", rows |-> rows, fields |-> tys, base |-> base,
                    block |-> U64Bytes(id) \o V3Block(tys, rows, var, more, pad)]
       \/ \E fields \in [1..cols -> {"TinyInt", "UInt", "Double"}],
             picks \in [1..cols -> [1..rows -> 1..4]] :
             raw = [pc |-> "frame_given", rows |-> rows, fields |-> fields, base |-> base,
                    block |-> U64Bytes(id) \o BlockBytes(fields, picks, 1)]

\* Message::Binary(block) in the reader task
ReaderBinaryFrame ==
  /\ raw.pc = "frame_given"
  /\ raw' = [raw EXCEPT !.pc = IF BinaryRoute(raw.block).ok THEN "routed" ELSE "reader_panicked"]
              @@ [sent |-> BinaryRoute(raw.block)]
  /\ UNCHANGED rawFrame

\* ResultSet::fetch: match self.receiver.recv()?? { Block(raw) => parse_from_raw_block(..),
\* BlockV2(raw) => parse_from_raw_block_v2(..) }.  The parsers may panic (C17, C16).
FetchDecode ==
  /\ raw.pc = "routed"
  /\ raw' = [raw EXCEPT !.pc = "decoded"]
              @@ [by  |-> IF raw.sent.data = "block" THEN "parse_from_raw_block"
                          ELSE "parse_from_raw_block_v2",
                  res |-> IF raw.sent.data = "block"
                          THEN parse_from_raw_block(raw.sent.body, raw.rows, Len(raw.fields))
                          ELSE parse_from_raw_block_v2(raw.sent.body, raw.fields,
                                 [c \in DOMAIN raw.fields |-> FieldLength(raw.fields[c], 0)],
                                 raw.rows, raw.base)]
  /\ UNCHANGED rawFrame

FrameNext == ReaderBinaryFrame \/ FetchDecode
FrameSpec == FrameInit /\ [][FrameNext]_vars

\* The 32-bit length field of the given frame holds n.
FrameLengthIs(n) ==
  /\ raw.block[9] + 256 * raw.block[10] = n
  /\ raw.block[11] = 0 /\ raw.block[12] = 0

\* C22 as claimed: of a binary frame the reader takes bytes 0..7 as the
\* little-endian res_id and bytes 8..11 as a length, and sends the bytes from
\* 8 on to the ResultSet, as a v3 block exactly when length + 8 is the frame
\* length and as a v2 block otherwise; the ResultSet decodes a v3 block with
\* parse_from_raw_block and a v2 block with parse_from_raw_block_v2.
C22_BinaryFraming ==
  /\ raw.pc # "reader_panicked"
  /\ raw.pc \in {"routed", "decoded"} =>
       /\ raw.sent.res_id = raw.block[1] + 256 * raw.block[2]
       /\ raw.sent.body = [k \in 1..(Len(raw.block) - 8) |-> raw.block[k + 8]]
       /\ raw.sent.data = "block" <=> FrameLengthIs(Len(raw.block) - 8)
       /\ raw.sent.data \in {"block", "block_v2"}
  /\ raw.pc = "decoded" =>
       /\ raw.sent.data = "block" => raw.by = "parse_from_raw_block"
       /\ raw.sent.data = "block_v2" => raw.by = "parse_from_raw_block_v2"

\* ======================================================= control frames
\* The reader takes a Ping frame / a Close frame from the socket.
ReadsPing == ReaderStep /\ Head(inbox).t = "ping"
ReadsCloseFrame == ReaderStep /\ Head(inbox).t = "close"

\* C23 as claimed: the reader answers every Ping by enqueuing one Pong with the
\* same payload on the writer channel and keeps running; a Close frame ends
\* the reader, and after that no inbound frame is dispatched.
C23_PingPongClose ==
  [][/\ ReadsPing => /\ wq' = Append(wq, PongMsg(Head(inbox)))
                     /\ rstate' = "running"
     /\ ReadsCloseFrame => rstate' = "closed"
     /\ rstate = "closed" =>
          /\ Len(inbox') >= Len(inbox)
          /\ UNCHANGED <<rhold, rstate>>]_vars

\* The frame f has none of the shapes the reader routes: a text that does not
\* parse or carries an action other than query, fetch and write_meta ("?",
\* "conn", "version"), or a binary frame too short for res_id and length.
Unexpected(f) ==
  \/ f.t = "text" /\ f.action \notin {"query", "write_meta", "fetch"}
  \/ f.t = "binary" /\ f.size < 12

\* C24 as claimed: an inbound frame of unexpected shape is discarded and is
\* never fatal: the reader keeps running (so that later responses are
\* delivered) and nothing is delivered for the frame.
C24_UnexpectedDiscarded ==
  [][(ReaderStep /\ Unexpected(Head(inbox))) =>
       /\ rstate' = "running"
       /\ UNCHANGED <<slot, chan, queries, fetches, wq, rhold>>]_vars

\* ============================================================ client drop
\* The server sends a fetch response that nobody asked for, for a result id it
\* has handed out.
ServerPush ==
  /\ sock = "open" /\ bpc = "connected" /\ unasked < MaxUnasked + MaxPush
  /\ unasked' = unasked + 1
  /\ \E i \in 1..(srvRes - 1) : inbox' = Append(inbox, TextFrame("fetch", 0, 0, i))
  /\ UNCHANGED <<hvars, sock, wire, srvRes, wstate, rstate>>
  /\ UNCHANGED clientvars
  /\ UNCHANGED <<closed, pvars>>

DropNext == CtlNext \/ ServerPush

\* The runtime polls the two background tasks: a task whose select! has a
\* ready branch takes one, and with the frames of a run being finitely many
\* the branch of the close signal is taken in the end; a send into a fetch
\* channel that has room returns, and so does a recv on one that holds a value.
DropFairSpec ==
  /\ Init /\ [][DropNext]_vars
  /\ WF_vars(WriterClose) /\ WF_vars(ReaderClose) /\ WF_vars(ReaderFetchSend)
  /\ WF_vars(FetchRecvMeta(1)) /\ WF_vars(FetchRecvBlock(1))

\* The writer task and the reader task have ended.
WriterEnded == wstate \in {"closed", "failed"}
ReaderEnded == rstate \in {"closed", "panicked"}

\* C25: after the WsAsyncClient is dropped (the close signal is sent) both
\* background tasks eventually end, the writer by closing the sink and
\* stopping, the reader by stopping; before the drop neither task ends by
\* the branch of the close signal.
C25_DropTerminates ==
  /\ dropped ~> (WriterEnded /\ ReaderEnded)
  /\ [][/\ (wstate # "closed" /\ wstate' = "closed") => dropped
        /\ (rstate = "running" /\ rstate' = "closed" /\ ~ReadsCloseFrame) => dropped]_vars

\* ===================================================== v2 blocks, strings
\* The slot of row r of column c starts with the null marker of the column's
\* type: a length prefix of 1 and the byte 0xFF (VarChar), a length prefix of
\* 4 and four bytes 0xFF (NChar, Json).
NullSlot(c, r) ==
  LET at == ColumnStart(raw.lengths, raw.rows, c) + r * raw.lengths[c] IN
    IF raw.fields[c] = "VarChar"
    THEN SubSeq(raw.bytes, at + 1, at + 3) = <<1, 0, 255>>
    ELSE SubSeq(raw.bytes, at + 1, at + 6) = <<4, 0, 255, 255, 255, 255>>

\* C26: a variable-length column of a v2 block is `rows` slots of `length`
\* bytes; row r has the offset -1 exactly when its slot starts with the null
\* marker, and the offset r * length otherwise.
C26_VarOffsets ==
  raw.pc = "v2_parsed" =>
    \A c \in 1..Len(raw.fields) : raw.fields[c] \in VarTys =>
      /\ Len(raw.columns[c].data) = raw.rows * raw.lengths[c]
      /\ \A r \in 0..(raw.rows - 1) :
           raw.columns[c].offsets[r + 1] = IF NullSlot(c, r) THEN -1 ELSE r * raw.lengths[c]

\* A VarChar column whose first row is null and an NChar column whose second
\* row is null, slots of 5 and 8 bytes.
C26_Witness ==
  /\ raw.pc = "v2_parsed" /\ raw.fields = <<"VarChar", "NChar">> /\ raw.rows = 2
  /\ raw.columns[1].offsets = <<-1, 5>>
  /\ raw.columns[2].offsets = <<0, -1>>

\* C27: the block made of a v2 block and its n fields has the shape of a v3
\* block: cols = n, and n schemas, n lengths and n column views in the order of
\* the fields; column 1 starts at byte 0 of the input and column c where column
\* c - 1 ended; lengths[c] is rows times the element size of a fixed-width
\* column and rows times the slot length of a variable-length one.
C27_V2Shape ==
  raw.pc = "v2_parsed" =>
    /\ raw.cols = Len(raw.fields)
    /\ DOMAIN raw.schemas = DOMAIN raw.fields
    /\ DOMAIN raw.data_lengths = DOMAIN raw.fields
    /\ DOMAIN raw.columns = DOMAIN raw.fields
    /\ \A c \in DOMAIN raw.fields :
         /\ raw.schemas[c].ty = raw.fields[c]
         /\ raw.columns[c].ty = raw.fields[c]
         /\ raw.columns[c].start =
              IF c = 1 THEN 0
              ELSE raw.columns[c - 1].start + Len(raw.columns[c - 1].data)
         /\ raw.data_lengths[c] =
              raw.rows * (IF raw.fields[c] \in VarTys THEN raw.lengths[c]
                          ELSE SizeOf(raw.fields[c]))
         /\ Len(raw.columns[c].data) = raw.data_lengths[c]

\* Two rows of an NChar column with slots of 8 bytes and of a SmallInt column:
\* the lengths are 16 and 4 and the second column starts at byte 16.
C27_Witness ==
  /\ raw.pc = "v2_parsed" /\ raw.fields = <<"NChar", "SmallInt">> /\ raw.rows = 2
  /\ raw.cols = 2 /\ raw.data_lengths = <<16, 4>>
  /\ raw.columns[2].start = 16

\* ================================================ reader and ResultSet drop
\* The reader finishes the delivery of a fetch response to the sender it
\* cloned, or delivers a block.
ReaderDelivers ==
  \/ rstate = "running" /\ rhold.on /\ ~rhold'.on
  \/ ReaderStep /\ Head(inbox).t = "binary" /\ Head(inbox).size >= 12

\* C28 as claimed: the drop of a ResultSet never ends the reader: however the
\* drop interleaves with the reader's delivery of a fetch response or a block
\* for the same res_id, the send succeeds or is skipped and the reader goes on.
C28_DropNeverEndsReader ==
  [][ReaderDelivers => rstate' = "running"]_vars

\* ========================================================= close messages
\* The step enqueues one message on the writer channel.
Enqueues == Len(wq') = Len(wq) + 1

\* C29 as claimed: over the life of a connection at most one close message is
\* enqueued per res_id (by the reader that sees completed = true or by the
\* drop of the owning ResultSet, whichever is first), and no fetch or
\* fetch_block for a res_id is enqueued after its close.
C29_OneClose ==
  [][Enqueues =>
       LET m == wq'[Len(wq')] IN
         m.a \in {"close", "fetch", "fetch_block"} => m.id \notin closed]_vars

\* ================================================================= s_exec
\* C30 as claimed: every s_exec eventually returns: with a server that never
\* answers it returns an error once the timeout has passed, as s_query does,
\* and does not stay waiting with its req_id in queries.
C30_ExecReturns ==
  \A c \in Calls : (pc[c] = "wait" /\ kind[c] = "exec") ~> (pc[c] = "done")

====
